---------------------------- MODULE Spec2Model ----------------------------
(***************************************************************************)
(* Model of the line-rider core of cli-game: ascii-rider/track.py (Track)  *)
(* and ascii-rider/physics.py (Rider).                                     *)
(*                                                                         *)
(* Numbers.  The program computes in Python floats.  Here every length and *)
(* velocity is an integer count of 1/Scale plane units, and every          *)
(* dimensionless value (coefficients, unit vectors, the ratio vx/speed) is *)
(* an integer count of 1/Milli.  Each arithmetic operation of the source   *)
(* is computed exactly and then rounded to the nearest grid value, as a    *)
(* float operation is rounded to the nearest float.                        *)
(***************************************************************************)
EXTENDS Integers, Sequences, FiniteSets, TLC

\* ------------------------------------------------------------------------
\* Bounds of the model
\* ------------------------------------------------------------------------
MaxLines == 2
MaxTicks == 9

\* Coordinates (whole plane units) the editor places points at.
EditorPoints == { <<0, 10>>, <<1, 10>>, <<2, 10>>, <<100, 10>>, <<50, 30>> }
\* <<x, y, vx, vy>> (whole plane units) a rider starts with: Rider(x, y)
\* sets the velocity (1, 0); a caller may assign vx, vy afterwards.
Starts == { <<0, 0, 1, 0>>, <<50, 50, 1, 0>>, <<50, -5, 0, 0>>, <<50, -5, 0, 11>> }
\* Time steps passed to update.
DtSet == { 1, 36 }

\* ------------------------------------------------------------------------
\* Number representation
\* ------------------------------------------------------------------------
Scale == 100
Milli == 1000

Abs(a) == IF a < 0 THEN -a ELSE a

\* a / b rounded to the nearest integer, halves away from zero (b > 0).
RoundDiv(a, b) ==
  IF a >= 0 THEN (2 * a + b) \div (2 * b)
            ELSE -((2 * (-a) + b) \div (2 * b))

\* <<q, r>> with a * b = q * c + r and 0 <= r < c, for 0 <= a <= c, b >= 0,
\* computed without forming the product a * b.
RECURSIVE MulDivRem(_, _, _)
MulDivRem(a, b, c) ==
  IF b = 0 THEN <<0, 0>>
  ELSE LET h == MulDivRem(a, b \div 2, c)
           t == 2 * h[2] + (b % 2) * a
       IN  <<2 * h[1] + t \div c, t % c>>

\* a * b / c rounded to the nearest integer, for 0 <= a <= c and any b.
MulDiv(a, b, c) ==
  LET qr == MulDivRem(a, Abs(b), c)
      q  == qr[1] + (IF 2 * qr[2] >= c THEN 1 ELSE 0)
  IN  IF b < 0 THEN -q ELSE q

RECURSIVE SqrtSearch(_, _, _)
SqrtSearch(n, lo, hi) ==
  IF lo >= hi THEN lo
  ELSE LET mid == (lo + hi + 1) \div 2
       IN  IF mid * mid <= n THEN SqrtSearch(n, mid, hi)
                             ELSE SqrtSearch(n, lo, mid - 1)

\* math.sqrt: the square root of n rounded to the nearest integer.
Sqrt(n) ==
  LET s == SqrtSearch(n, 0, 46340)
  IN  IF n - s * s > s THEN s + 1 ELSE s

\* v * c for a coefficient c given in 1/Milli.
Coef(v, c) == RoundDiv(v * c, Milli)

\* ------------------------------------------------------------------------
\* Track (track.py)
\* ------------------------------------------------------------------------
None == -1

VARIABLES points, lines, last_point

\* Mutant of FirstNear: the last matching point instead of the first.
RECURSIVE FirstNear_Last(_, _, _, _)
FirstNear_Last(pts, px, py, i) ==
  IF i >= Len(pts) THEN None
  ELSE LET later == FirstNear_Last(pts, px, py, i + 1)
       IN  IF later # None THEN later
           ELSE IF Abs(pts[i + 1][1] - px) < 2 * Scale /\ Abs(pts[i + 1][2] - py) < 2 * Scale
                THEN i
                ELSE None

\* Mutant of FirstNear: a tolerance of 1 instead of 2.
RECURSIVE FirstNear_Tight(_, _, _, _)
FirstNear_Tight(pts, px, py, i) ==
  IF i >= Len(pts) THEN None
  ELSE IF Abs(pts[i + 1][1] - px) < 1 * Scale /\ Abs(pts[i + 1][2] - py) < 1 * Scale
       THEN i
       ELSE FirstNear_Tight(pts, px, py, i + 1)

\* Index (0-based, as in the source) of the first point within tolerance of
\* (px, py), or None.
RECURSIVE FirstNear(_, _, _, _)
FirstNear(pts, px, py, i) ==
  IF i >= Len(pts) THEN None
  ELSE IF Abs(pts[i + 1][1] - px) < 2 * Scale /\ Abs(pts[i + 1][2] - py) < 2 * Scale
       THEN i
       ELSE FirstNear(pts, px, py, i + 1)

\* Mutant of add_point: a match connects the cursor even to itself.
add_point_SelfLoop(t, px, py) ==
  LET i == FirstNear(t.points, px, py, 0)
  IN  IF i # None
      THEN [ points     |-> t.points,
             lines      |-> IF t.last_point # None
                            THEN Append(t.lines, <<t.last_point, i>>)
                            ELSE t.lines,
             last_point |-> i ]
      ELSE [ points     |-> Append(t.points, <<px, py>>),
             lines      |-> IF t.last_point # None
                            THEN Append(t.lines, <<t.last_point, Len(t.points)>>)
                            ELSE t.lines,
             last_point |-> Len(t.points) ]

\* Mutant of add_point: no snapping, every call creates a point.
add_point_NoSnap(t, px, py) ==
  [ points     |-> Append(t.points, <<px, py>>),
    lines      |-> IF t.last_point # None
                   THEN Append(t.lines, <<t.last_point, Len(t.points)>>)
                   ELSE t.lines,
    last_point |-> Len(t.points) ]

\* Mutant of add_point: a match does not move the cursor.
add_point_StaleCursor(t, px, py) ==
  LET i == FirstNear(t.points, px, py, 0)
  IN  IF i # None
      THEN [ points     |-> t.points,
             lines      |-> IF t.last_point # None /\ t.last_point # i
                            THEN Append(t.lines, <<t.last_point, i>>)
                            ELSE t.lines,
             last_point |-> t.last_point ]
      ELSE [ points     |-> Append(t.points, <<px, py>>),
             lines      |-> IF t.last_point # None
                            THEN Append(t.lines, <<t.last_point, Len(t.points)>>)
                            ELSE t.lines,
             last_point |-> Len(t.points) ]

\* Mutant of add_point: a match moves the matched point to (px, py).
add_point_MovesPoint(t, px, py) ==
  LET i == FirstNear(t.points, px, py, 0)
  IN  IF i # None
      THEN [ points     |-> [ t.points EXCEPT ![i + 1] = <<px, py>> ],
             lines      |-> IF t.last_point # None /\ t.last_point # i
                            THEN Append(t.lines, <<t.last_point, i>>)
                            ELSE t.lines,
             last_point |-> i ]
      ELSE [ points     |-> Append(t.points, <<px, py>>),
             lines      |-> IF t.last_point # None
                            THEN Append(t.lines, <<t.last_point, Len(t.points)>>)
                            ELSE t.lines,
             last_point |-> Len(t.points) ]

\* Track.add_point(x, y): the track after the call.
add_point(t, px, py) ==
  LET i == FirstNear(t.points, px, py, 0)
  IN  IF i # None
      THEN [ points     |-> t.points,
             lines      |-> IF t.last_point # None /\ t.last_point # i
                            THEN Append(t.lines, <<t.last_point, i>>)
                            ELSE t.lines,
             last_point |-> i ]
      ELSE LET point_idx == Len(t.points)
           IN  [ points     |-> Append(t.points, <<px, py>>),
                 lines      |-> IF t.last_point # None
                                THEN Append(t.lines, <<t.last_point, point_idx>>)
                                ELSE t.lines,
                 last_point |-> point_idx ]

\* Track.__init__ and Track.clear.
EmptyTrack == [ points |-> <<>>, lines |-> <<>>, last_point |-> None ]

TrackNow == [ points |-> points, lines |-> lines, last_point |-> last_point ]

\* Mutant of clear: the cursor is not reset.
clear_KeepsCursor(t) == [ EmptyTrack EXCEPT !.last_point = t.last_point ]

\* Track.clear(): the track after the call.
clear(t) == EmptyTrack

\* Track.get_start_position(): the first point, or None.  The result is a
\* sequence holding the point, empty for None; it is truthy iff nonempty.
get_start_position(t) == IF Len(t.points) > 0 THEN << t.points[1] >> ELSE << >>

\* ------------------------------------------------------------------------
\* Rider (physics.py)
\* ------------------------------------------------------------------------
VARIABLES x, y, vx, vy, crashed, on_track

\* Physics constants of Rider.__init__; coefficients in 1/Milli, speeds in
\* whole plane units.
gravity == 400
friction == 995
air_resistance == 990
bounce == 400
max_speed == 12
crash_threshold == 10
\* min_dist of check_collision, whole plane units.
min_dist == 4

RiderNow == [ x |-> x, y |-> y, vx |-> vx, vy |-> vy,
              crashed |-> crashed, on_track |-> on_track ]

\* Rider(x, y), then vx, vy as the caller sets them.
NewRider(sx, sy, svx, svy) ==
  [ x |-> sx * Scale, y |-> sy * Scale, vx |-> svx * Scale, vy |-> svy * Scale,
    crashed |-> FALSE, on_track |-> FALSE ]

\* Mutant of closest_point_on_line: t is not clamped to [0, 1].
closest_point_on_line_NoClamp(rx, ry, p1, p2) ==
  LET x1 == p1[1]
      y1 == p1[2]
      dx == p2[1] - x1
      dy == p2[2] - y1
  IN  IF dx = 0 /\ dy = 0 THEN p1
      ELSE LET num == (rx - x1) * dx + (ry - y1) * dy
               den == dx * dx + dy * dy
               \* t = num / den = q + r / den, not clamped
               q   == num \div den
               r   == num % den
           IN  <<x1 + q * dx + MulDiv(r, dx, den), y1 + q * dy + MulDiv(r, dy, den)>>

\* Rider.closest_point_on_line for a rider at (rx, ry).
closest_point_on_line(rx, ry, p1, p2) ==
  LET x1 == p1[1]
      y1 == p1[2]
      dx == p2[1] - x1
      dy == p2[2] - y1
  IN  IF dx = 0 /\ dy = 0 THEN p1
      ELSE LET num == (rx - x1) * dx + (ry - y1) * dy
               den == dx * dx + dy * dy
               \* t = num / den clamped to [0, 1], kept as the numerator tn
               tn  == IF num < 0 THEN 0 ELSE IF num > den THEN den ELSE num
           IN  <<x1 + MulDiv(tn, dx, den), y1 + MulDiv(tn, dy, den)>>

\* Beyond Far on one axis the distance is reported as Far: it is far above
\* min_dist either way, and the squares stay within TLC's integers.
Far == 300 * Scale

\* sqrt((rx - c[0])**2 + (ry - c[1])**2)
Dist(rx, ry, c) ==
  LET ex == Abs(rx - c[1])
      ey == Abs(ry - c[2])
  IN  IF ex > Far \/ ey > Far THEN Far ELSE Sqrt(ex * ex + ey * ey)

\* track.points[i] as Python indexes a list: i from -len to len - 1, a
\* negative i counting from the end; any other i raises IndexError.
InRange(pts, i) == -Len(pts) <= i /\ i < Len(pts)
PointAt(pts, i) == pts[(i % Len(pts)) + 1]

\* No line of the track makes check_collision raise IndexError.
Indexable(pts, lns) ==
  \A k \in 1..Len(lns) : InRange(pts, lns[k][1]) /\ InRange(pts, lns[k][2])

NoContact ==
  [ found |-> FALSE, line |-> 0, p1 |-> <<0, 0>>, p2 |-> <<0, 0>>,
    closest |-> <<0, 0>>, dist |-> min_dist * Scale ]

\* Mutant of CollisionFrom: min_dist is not lowered, so the last segment
\* within the threshold wins.
RECURSIVE CollisionFrom_LastWins(_, _, _, _, _, _)
CollisionFrom_LastWins(rx, ry, pts, lns, k, best) ==
  IF k > Len(lns) THEN best
  ELSE LET p1      == PointAt(pts, lns[k][1])
           p2      == PointAt(pts, lns[k][2])
           closest == closest_point_on_line(rx, ry, p1, p2)
           dist    == Dist(rx, ry, closest)
       IN  IF dist < min_dist * Scale
           THEN CollisionFrom_LastWins(rx, ry, pts, lns, k + 1,
                  [ found |-> TRUE, line |-> k, p1 |-> p1, p2 |-> p2,
                    closest |-> closest, dist |-> dist ])
           ELSE CollisionFrom_LastWins(rx, ry, pts, lns, k + 1, best)

\* Mutant of CollisionFrom: dist <= min_dist, so a later segment at the
\* same distance replaces the current best.
RECURSIVE CollisionFrom_LastTie(_, _, _, _, _, _)
CollisionFrom_LastTie(rx, ry, pts, lns, k, best) ==
  IF k > Len(lns) THEN best
  ELSE LET p1      == PointAt(pts, lns[k][1])
           p2      == PointAt(pts, lns[k][2])
           closest == closest_point_on_line(rx, ry, p1, p2)
           dist    == Dist(rx, ry, closest)
       IN  IF (dist < best.dist) \/ (best.found /\ dist = best.dist)
           THEN CollisionFrom_LastTie(rx, ry, pts, lns, k + 1,
                  [ found |-> TRUE, line |-> k, p1 |-> p1, p2 |-> p2,
                    closest |-> closest, dist |-> dist ])
           ELSE CollisionFrom_LastTie(rx, ry, pts, lns, k + 1, best)

\* The loop of check_collision from line k on; best is closest_collision
\* (with its min_dist) so far.
RECURSIVE CollisionFrom(_, _, _, _, _, _)
CollisionFrom(rx, ry, pts, lns, k, best) ==
  IF k > Len(lns) THEN best
  ELSE LET p1      == PointAt(pts, lns[k][1])
           p2      == PointAt(pts, lns[k][2])
           closest == closest_point_on_line(rx, ry, p1, p2)
           dist    == Dist(rx, ry, closest)
       IN  IF dist < best.dist
           THEN CollisionFrom(rx, ry, pts, lns, k + 1,
                  [ found |-> TRUE, line |-> k, p1 |-> p1, p2 |-> p2,
                    closest |-> closest, dist |-> dist ])
           ELSE CollisionFrom(rx, ry, pts, lns, k + 1, best)

\* The track passed to update, after the call: update and check_collision
\* read track.lines and track.points and assign nothing of the track.
\* Mutant: the resolver pops the lines it has looked at.
track_after_update_Consumed(t) == [ t EXCEPT !.lines = << >> ]

track_after_update(t) == t

\* Rider.check_collision for a rider at (rx, ry).
check_collision(rx, ry, pts, lns) == CollisionFrom(rx, ry, pts, lns, 1, NoContact)

\* Mutant of LimitSpeed: no clamp.
LimitSpeed_Off(ux, uy) == << ux, uy >>

\* Lines 97-101: limit max speed.  <<vx, vy>> after the clamp.
LimitSpeed(ux, uy) ==
  LET speed == Sqrt(ux * ux + uy * uy)
  IN  IF speed > max_speed * Scale
      THEN << Coef(max_speed * Scale, RoundDiv(ux * Milli, speed)),
              Coef(max_speed * Scale, RoundDiv(uy * Milli, speed)) >>
      ELSE << ux, uy >>

\* Mutant of OutOfBounds: the lower edge y > 100 is not tested.
OutOfBounds_NoFloor(rx, ry) ==
  ry < -10 * Scale \/ rx < -10 * Scale \/ rx > 200 * Scale

\* Line 104: fallen off screen.
OutOfBounds(rx, ry) ==
  ry > 100 * Scale \/ ry < -10 * Scale \/ rx < -10 * Scale \/ rx > 200 * Scale

\* Mutant of Finish: a rider faster than max_speed is crashed.
Finish_CrashOnClamp(rx, ry, ux, uy, ontrack, wascrashed) ==
  LET v == LimitSpeed(ux, uy)
  IN  [ x |-> rx, y |-> ry, vx |-> v[1], vy |-> v[2],
        crashed |-> (wascrashed \/ OutOfBounds(rx, ry) \/ v # << ux, uy >>),
        on_track |-> ontrack ]

\* Lines 97-105, reached on every path but the crash on impact.
Finish(rx, ry, ux, uy, ontrack, wascrashed) ==
  LET v == LimitSpeed(ux, uy)
  IN  [ x |-> rx, y |-> ry, vx |-> v[1], vy |-> v[2],
        crashed |-> (wascrashed \/ OutOfBounds(rx, ry)), on_track |-> ontrack ]

\* Mutant of IsCrash: the comparison turned around.
IsCrash_Flipped(normal_velocity) == normal_velocity > crash_threshold * Scale

\* Mutant of IsCrash: the sign of the threshold dropped.
IsCrash_NoSign(normal_velocity) == normal_velocity < crash_threshold * Scale

\* Line 73: too much perpendicular velocity.
IsCrash(normal_velocity) == normal_velocity < -(crash_threshold * Scale)

\* Mutant of Slide: the velocity is not projected onto the tangent.
Slide_KeepsNormal(ux, uy, tx, ty, nv, dt) ==
  LET nx  == -ty
      ny  == tx
      bx  == IF nv < 0 THEN ux - Coef(Coef(nv, nx), Milli + bounce) ELSE ux
      by  == IF nv < 0 THEN uy - Coef(Coef(nv, ny), Milli + bounce) ELSE uy
      gravity_along_slope == Coef(Coef(Scale, gravity), ty)
  IN  << Coef(bx, friction) + Coef(gravity_along_slope, tx) * dt,
         Coef(by, friction) + Coef(gravity_along_slope, ty) * dt >>

\* Mutant of Slide: no acceleration along the slope.
Slide_NoSlope(ux, uy, tx, ty, nv, dt) ==
  LET nx  == -ty
      ny  == tx
      bx  == IF nv < 0 THEN ux - Coef(Coef(nv, nx), Milli + bounce) ELSE ux
      by  == IF nv < 0 THEN uy - Coef(Coef(nv, ny), Milli + bounce) ELSE uy
      tangent_velocity    == RoundDiv(bx * tx + by * ty, Milli)
  IN  << Coef(Coef(tangent_velocity, tx), friction),
         Coef(Coef(tangent_velocity, ty), friction) >>

\* Mutant of SlideWith: the restitution term is added after the projection
\* onto the tangent.
SlideWith_BounceLast(b, ux, uy, tx, ty, nv, dt) ==
  LET nx  == -ty
      ny  == tx
      tangent_velocity    == RoundDiv(ux * tx + uy * ty, Milli)
      gravity_along_slope == Coef(Coef(Scale, gravity), ty)
      kx  == IF nv < 0 THEN Coef(Coef(nv, nx), Milli + b) ELSE 0
      ky  == IF nv < 0 THEN Coef(Coef(nv, ny), Milli + b) ELSE 0
  IN  << Coef(Coef(tangent_velocity, tx), friction) + Coef(gravity_along_slope, tx) * dt - kx,
         Coef(Coef(tangent_velocity, ty), friction) + Coef(gravity_along_slope, ty) * dt - ky >>

\* Lines 79-95 for a rider whose bounce attribute is b (in 1/Milli): the
\* velocity after a contact that did not crash, for the velocity (ux, uy),
\* unit tangent (tx, ty) in 1/Milli and normal velocity nv.
SlideWith(b, ux, uy, tx, ty, nv, dt) ==
  LET nx  == -ty
      ny  == tx
      bx  == IF nv < 0 THEN ux - Coef(Coef(nv, nx), Milli + b) ELSE ux
      by  == IF nv < 0 THEN uy - Coef(Coef(nv, ny), Milli + b) ELSE uy
      tangent_velocity    == RoundDiv(bx * tx + by * ty, Milli)
      gravity_along_slope == Coef(Coef(Scale, gravity), ty)
  IN  << Coef(Coef(tangent_velocity, tx), friction) + Coef(gravity_along_slope, tx) * dt,
         Coef(Coef(tangent_velocity, ty), friction) + Coef(gravity_along_slope, ty) * dt >>

\* Lines 79-95 with the bounce of Rider.__init__.
Slide(ux, uy, tx, ty, nv, dt) == SlideWith(bounce, ux, uy, tx, ty, nv, dt)

\* What one update call yields: the rider after it and what it computed on
\* the way: the path taken, the integrated position (px, py) and velocity
\* (ux, uy) of lines 28-38, the resolver's result, the normal velocity, and
\* the velocity (cx, cy) before the clamp.
Outcome(rider, path, m, col, nv, cx, cy) ==
  [ rider |-> rider, path |-> path, px |-> m.px, py |-> m.py, ux |-> m.ux, uy |-> m.uy,
    col |-> col, nv |-> nv, cx |-> cx, cy |-> cy ]

\* Mutant of Motion: air resistance whether on track or not.
Motion_DragAlways(r, dt) ==
  LET g  == r.vy + Coef(dt * Scale, gravity)
      ux == Coef(r.vx, air_resistance)
      uy == Coef(g, air_resistance)
  IN  [ ux |-> ux, uy |-> uy, px |-> r.x + ux * dt, py |-> r.y + uy * dt ]

\* Mutant of Motion: air resistance applied before gravity is added.
Motion_DragFirst(r, dt) ==
  LET ux == IF ~r.on_track THEN Coef(r.vx, air_resistance) ELSE r.vx
      uy == (IF ~r.on_track THEN Coef(r.vy, air_resistance) ELSE r.vy) + Coef(dt * Scale, gravity)
  IN  [ ux |-> ux, uy |-> uy, px |-> r.x + ux * dt, py |-> r.y + uy * dt ]

\* Lines 28-38: gravity, air resistance when not on track, position.
Motion(r, dt) ==
  LET g  == r.vy + Coef(dt * Scale, gravity)
      ux == IF ~r.on_track THEN Coef(r.vx, air_resistance) ELSE r.vx
      uy == IF ~r.on_track THEN Coef(g, air_resistance) ELSE g
  IN  [ ux |-> ux, uy |-> uy, px |-> r.x + ux * dt, py |-> r.y + uy * dt ]

\* Lines 49-56: length and unit tangent (in 1/Milli) of the contact segment.
Tangent(col) ==
  LET dx == col.p2[1] - col.p1[1]
      dy == col.p2[2] - col.p1[2]
      length == Sqrt(dx * dx + dy * dy)
  IN  [ length |-> length,
        tx |-> IF length > 0 THEN RoundDiv(dx * Milli, length) ELSE 0,
        ty |-> IF length > 0 THEN RoundDiv(dy * Milli, length) ELSE 0 ]

\* Mutant of NormalVelocity: the normal always points against the motion,
\* whichever way the segment is stored.
NormalVelocity_Unsigned(ux, uy, tg) == -Abs(RoundDiv(ux * (-tg.ty) + uy * tg.tx, Milli))

\* Lines 59-70: velocity projected onto the normal (nx, ny) = (-ty, tx).
NormalVelocity(ux, uy, tg) == RoundDiv(ux * (-tg.ty) + uy * tg.tx, Milli)

\* Mutant of Landed: the rider is not moved to the closest point.
Landed_NoSnap(m, col, nv, sv) ==
  Outcome(Finish(m.px, m.py, sv[1], sv[2], TRUE, FALSE), "slide", m, col, nv, sv[1], sv[2])

\* Lines 62-64 and 79-105: a contact that does not crash.
Landed(m, col, nv, sv) ==
  Outcome(Finish(col.closest[1], col.closest[2], sv[1], sv[2], TRUE, FALSE),
          "slide", m, col, nv, sv[1], sv[2])

\* Mutant of Impact: a crashing rider stays where the motion took it.
Impact_CrashInPlace(m, col, tg, nv, dt) ==
  IF IsCrash(nv)
  THEN Outcome([ x |-> m.px, y |-> m.py, vx |-> 0, vy |-> 0,
                 crashed |-> TRUE, on_track |-> TRUE ],
               "impact", m, col, nv, 0, 0)
  ELSE Landed(m, col, nv, Slide(m.ux, m.uy, tg.tx, tg.ty, nv, dt))

\* Lines 62-77: the crash check on a contact with a segment of length > 0.
Impact(m, col, tg, nv, dt) ==
  IF IsCrash(nv)
  THEN Outcome([ x |-> col.closest[1], y |-> col.closest[2], vx |-> 0, vy |-> 0,
                 crashed |-> TRUE, on_track |-> TRUE ],
               "impact", m, col, nv, 0, 0)
  ELSE Landed(m, col, nv, Slide(m.ux, m.uy, tg.tx, tg.ty, nv, dt))

\* Mutant of Touch: on_track is set only inside the length > 0 branch.
Touch_FlagInsidePhysics(m, col, tg, dt) ==
  IF ~(tg.length > 0)
  THEN Outcome(Finish(m.px, m.py, m.ux, m.uy, FALSE, FALSE), "degenerate", m, col, 0, m.ux, m.uy)
  ELSE Impact(m, col, tg, NormalVelocity(m.ux, m.uy, tg), dt)

\* Mutant of Touch: the rider is moved to the closest point before the
\* length is tested.
Touch_SnapsFirst(m, col, tg, dt) ==
  IF ~(tg.length > 0)
  THEN Outcome(Finish(col.closest[1], col.closest[2], m.ux, m.uy, TRUE, FALSE),
               "degenerate", m, col, 0, m.ux, m.uy)
  ELSE Impact(m, col, tg, NormalVelocity(m.ux, m.uy, tg), dt)

\* Lines 44-53: a contact; physics only if the segment has length > 0.
Touch(m, col, tg, dt) ==
  IF ~(tg.length > 0)
  THEN Outcome(Finish(m.px, m.py, m.ux, m.uy, TRUE, FALSE), "degenerate", m, col, 0, m.ux, m.uy)
  ELSE Impact(m, col, tg, NormalVelocity(m.ux, m.uy, tg), dt)

\* Lines 41-46: the resolver's answer decides the path.
Contact(m, col, dt) ==
  IF ~col.found
  THEN Outcome(Finish(m.px, m.py, m.ux, m.uy, FALSE, FALSE), "free", m, col, 0, m.ux, m.uy)
  ELSE Touch(m, col, Tangent(col), dt)

\* Lines 40-42: on_track is reset and the resolver is called; an index of
\* a line outside points raises IndexError out of check_collision (lines
\* 113-114) and out of update, after the assignments of lines 28-40.
Resolve(m, pts, lns, dt) ==
  IF ~Indexable(pts, lns)
  THEN Outcome([ x |-> m.px, y |-> m.py, vx |-> m.ux, vy |-> m.uy,
                 crashed |-> FALSE, on_track |-> FALSE ],
               "IndexError", m, NoContact, 0, m.ux, m.uy)
  ELSE Contact(m, check_collision(m.px, m.py, pts, lns), dt)

\* Lines 28-105 of Rider.update: one tick of a rider that is not crashed.
Tick(r, pts, lns, dt) == Resolve(Motion(r, dt), pts, lns, dt)

\* Mutant of update: no early return for a crashed rider.
update_NoCrashCheck(r, pts, lns, dt) == Tick(r, pts, lns, dt)

\* Rider.update(track, dt) on rider record r.
update(r, pts, lns, dt) ==
  IF r.crashed
  THEN Outcome(r, "noop", [ ux |-> r.vx, uy |-> r.vy, px |-> r.x, py |-> r.y ],
               NoContact, 0, r.vx, r.vy)
  ELSE Tick(r, pts, lns, dt)

\* ------------------------------------------------------------------------
\* The state machine: a caller of Track and Rider
\* ------------------------------------------------------------------------
\* ticks: update calls made on the current rider.
\* run:   how the current rider was started (an element of Starts) and
\*        whether every update call on it so far was passed dt = 1.
\* hist:  the last call (op, its arguments, the track and the rider before
\*        it, what update computed) and the call before it (pop, pax, pay).
VARIABLES ticks, run, hist

\* The game around them (main.py, class Game).
\* mode, paused:  Game.mode, Game.paused.
\* has_rider:     Game.rider is a Rider (not None).
\* files:         the *.json files of maps_dir, oldest first; each with its
\*                text, the N of its name "track N.json" (0 for a file of
\*                another name, put there from outside) and, for a file
\*                written by save_track, the points and lines it was
\*                written from.
\* status_message: Game.status_message.
\* raised:        the exception that has escaped a call, "none" if none.
VARIABLES mode, paused, has_rider, files, status_message, raised

\* The game loop (Game.run).
\* editor_x, editor_y: the editor's cursor.
\* running:  Game.running.
\* ridden:   kept by the passes of the loop: "same" when the track is the
\*           one Game.rider was last updated against by playing_screen,
\*           "changed" when the track was mutated or replaced since, and
\*           "none" for a rider not updated yet and when there is no rider.
VARIABLES editor_x, editor_y, running, ridden

loop == << editor_x, editor_y, running, ridden >>

game == << mode, paused, has_rider, files, status_message, raised,
           editor_x, editor_y, running, ridden >>

vars == << points, lines, last_point, x, y, vx, vy, crashed, on_track,
           ticks, run, hist, mode, paused, has_rider, files, status_message, raised,
           editor_x, editor_y, running, ridden >>

\* Lines 26-27 and 21 of Game.__init__, and no rider updated yet.
NoLoop ==
  /\ editor_x = 40
  /\ editor_y = 10
  /\ running = TRUE
  /\ ridden = "none"

\* The game's fields where only a Track and a Rider are driven.
NoGame ==
  /\ mode = "menu"
  /\ paused = FALSE
  /\ has_rider = TRUE
  /\ files = << >>
  /\ status_message = ""
  /\ raised = "none"
  /\ NoLoop

NoInfo ==
  [ path |-> "none", px |-> 0, py |-> 0, ux |-> 0, uy |-> 0,
    col |-> NoContact, nv |-> 0, cx |-> 0, cy |-> 0 ]

Info(u) ==
  [ path |-> u.path, px |-> u.px, py |-> u.py, ux |-> u.ux, uy |-> u.uy,
    col |-> u.col, nv |-> u.nv, cx |-> u.cx, cy |-> u.cy ]

Call(op, ax, ay, dt, info) ==
  [ op |-> op, ax |-> ax, ay |-> ay, dt |-> dt,
    pre |-> RiderNow, pret |-> TrackNow, info |-> info,
    pop |-> hist.op, pax |-> hist.ax, pay |-> hist.ay ]

SetRider(r) ==
  /\ x' = r.x
  /\ y' = r.y
  /\ vx' = r.vx
  /\ vy' = r.vy
  /\ crashed' = r.crashed
  /\ on_track' = r.on_track

SetTrack(t) ==
  /\ points' = t.points
  /\ lines' = t.lines
  /\ last_point' = t.last_point

Init ==
  /\ points = EmptyTrack.points
  /\ lines = EmptyTrack.lines
  /\ last_point = EmptyTrack.last_point
  /\ \E s \in Starts :
       LET r == NewRider(s[1], s[2], s[3], s[4])
       IN  /\ x = r.x
           /\ y = r.y
           /\ vx = r.vx
           /\ vy = r.vy
           /\ crashed = r.crashed
           /\ on_track = r.on_track
           /\ run = [ start |-> s, unit_dt |-> TRUE ]
  /\ ticks = 0
  /\ hist = [ op |-> "init", ax |-> 0, ay |-> 0, dt |-> 0,
              pre |-> NewRider(0, 0, 0, 0), pret |-> EmptyTrack, info |-> NoInfo,
              pop |-> "init", pax |-> 0, pay |-> 0 ]
  /\ NoGame

\* An exception that escapes a call ends the program: no call is made
\* after it (raised = "none" guards every call).
\* track.add_point(p[1], p[2])
AddPoint(p) ==
  /\ raised = "none"
  /\ ticks = 0
  /\ Len(lines) < MaxLines
  /\ SetTrack(add_point(TrackNow, p[1] * Scale, p[2] * Scale))
  /\ hist' = Call("add_point", p[1] * Scale, p[2] * Scale, 0, NoInfo)
  /\ UNCHANGED << x, y, vx, vy, crashed, on_track, ticks, run >>
  /\ UNCHANGED game

\* track.clear()
Clear ==
  /\ raised = "none"
  /\ ticks = 0
  /\ SetTrack(clear(TrackNow))
  /\ hist' = Call("clear", 0, 0, 0, NoInfo)
  /\ UNCHANGED << x, y, vx, vy, crashed, on_track, ticks, run >>
  /\ UNCHANGED game

\* rider = Rider(s[1], s[2]); rider.vx, rider.vy = s[3], s[4]
Place(s) ==
  /\ raised = "none"
  /\ SetRider(NewRider(s[1], s[2], s[3], s[4]))
  /\ ticks' = 0
  /\ run' = [ start |-> s, unit_dt |-> TRUE ]
  /\ hist' = Call("rider", s[1] * Scale, s[2] * Scale, 0, NoInfo)
  /\ UNCHANGED << points, lines, last_point >>
  /\ UNCHANGED game

\* rider.update(track, dt)
Update(dt) ==
  /\ ticks < MaxTicks
  /\ has_rider
  /\ raised = "none"
  /\ LET u == update(RiderNow, points, lines, dt)
     IN  /\ SetRider(u.rider)
         /\ hist' = Call("update", 0, 0, dt, Info(u))
         /\ raised' = IF u.path = "IndexError" THEN "IndexError" ELSE raised
  /\ UNCHANGED << mode, paused, has_rider, files, status_message >>
  /\ UNCHANGED loop
  /\ SetTrack(track_after_update(TrackNow))
  /\ ticks' = ticks + 1
  /\ run' = [ run EXCEPT !.unit_dt = @ /\ dt = 1 ]

Next ==
  \/ \E p \in EditorPoints : AddPoint(p)
  \/ Clear
  \/ \E s \in Starts : Place(s)
  \/ \E dt \in DtSet : Update(dt)

Spec == Init /\ [][Next]_vars

\* ------------------------------------------------------------------------
\* Claims about the track
\* ------------------------------------------------------------------------
\* (x, y) is within the snap tolerance of point p: both axes closer than 2.
Near(p, px, py) == Abs(p[1] - px) < 2 * Scale /\ Abs(p[2] - py) < 2 * Scale

\* C3. Track well-formedness: after any sequence of add_point and clear
\* calls on a track created empty, every entry [a, b] of lines has
\* 0 <= a < len(points), 0 <= b < len(points) and a # b.
C3_TrackWellFormed ==
  \A k \in 1..Len(lines) :
    /\ 0 <= lines[k][1] /\ lines[k][1] < Len(points)
    /\ 0 <= lines[k][2] /\ lines[k][2] < Len(points)
    /\ lines[k][1] # lines[k][2]

\* A snapping add_point appended a second segment, back to an older point.
C3_Witness ==
  /\ hist.op = "add_point"
  /\ Len(lines) = 2
  /\ Len(lines) = Len(hist.pret.lines) + 1
  /\ points = hist.pret.points
  /\ lines[2][2] < lines[2][1]

\* Two add_point calls in a row with the same coordinates.
SameTwice ==
  /\ hist.op = "add_point"
  /\ hist'.op = "add_point"
  /\ hist'.ax = hist.ax
  /\ hist'.ay = hist.ay

\* C4 as claimed. Snap-and-chain idempotence: add_point(x, y) twice in a
\* row with the same coordinates adds exactly one point and one connecting
\* segment in total, the second call creating no point.  (hist.pret is the
\* track before the first call; the case checked is the one with a cursor
\* to connect from.)
C4_AsClaimed ==
  [][ (SameTwice /\ hist.pret.last_point # None) =>
        /\ Len(points') = Len(hist.pret.points) + 1
        /\ Len(lines') = Len(hist.pret.lines) + 1
        /\ points' = points ]_vars

\* C4 as amended. The second of two add_point calls in a row with the same
\* coordinates changes nothing: it matches the point the first call created
\* or matched, which is already the cursor, so it creates no point and
\* appends no segment.  In total the two calls add at most one point and at
\* most one segment, appended after the old ones.
C4_SecondCallNoOp ==
  [][ SameTwice =>
        /\ points' = points
        /\ lines' = lines
        /\ last_point' = last_point
        /\ Near(points[last_point + 1], hist.ax, hist.ay)
        /\ Len(points) <= Len(hist.pret.points) + 1
        /\ Len(lines) <= Len(hist.pret.lines) + 1 ]_vars

\* add_point was called twice in a row with the same coordinates, the first
\* call having created a point and its connecting segment.
C4_Witness ==
  /\ hist.op = "add_point"
  /\ hist.pop = "add_point"
  /\ hist.pax = hist.ax
  /\ hist.pay = hist.ay
  /\ Len(points) = 2
  /\ Len(lines) = 1
  /\ points[2] = <<hist.ax, hist.ay>>

\* The index of the first point of pts, in insertion order, within the
\* tolerance of (px, py), is i.
FirstMatch(pts, px, py, i) ==
  /\ i \in 0..(Len(pts) - 1)
  /\ Near(pts[i + 1], px, py)
  /\ \A j \in 0..(i - 1) : ~Near(pts[j + 1], px, py)

SomeMatch(pts, px, py) == \E i \in 0..(Len(pts) - 1) : Near(pts[i + 1], px, py)

\* C5 as claimed. Snap rule: if some existing point is within tolerance, no
\* point is created and a segment from the cursor to the first such point
\* is added; otherwise a new point is appended at index len(points) and, if
\* a cursor exists, a segment [cursor, new index] is appended.
C5_AsClaimed ==
  hist.op = "add_point" =>
    LET t == hist.pret
    IN  IF SomeMatch(t.points, hist.ax, hist.ay)
        THEN /\ points = t.points
             /\ \E i \in 0..(Len(t.points) - 1) :
                  /\ FirstMatch(t.points, hist.ax, hist.ay, i)
                  /\ lines = Append(t.lines, <<t.last_point, i>>)
        ELSE /\ points = Append(t.points, <<hist.ax, hist.ay>>)
             /\ lines = IF t.last_point # None
                        THEN Append(t.lines, <<t.last_point, Len(t.points)>>)
                        ELSE t.lines

\* C5 as amended. As claimed, except that on a match the segment from the
\* cursor to the matched point is added only when a cursor exists and is
\* not the matched point itself; otherwise lines is unchanged.
C5_SnapRule ==
  hist.op = "add_point" =>
    LET t == hist.pret
    IN  IF SomeMatch(t.points, hist.ax, hist.ay)
        THEN /\ points = t.points
             /\ \E i \in 0..(Len(t.points) - 1) :
                  /\ FirstMatch(t.points, hist.ax, hist.ay, i)
                  /\ lines = IF t.last_point # None /\ t.last_point # i
                             THEN Append(t.lines, <<t.last_point, i>>)
                             ELSE t.lines
        ELSE /\ points = Append(t.points, <<hist.ax, hist.ay>>)
             /\ lines = IF t.last_point # None
                        THEN Append(t.lines, <<t.last_point, Len(t.points)>>)
                        ELSE t.lines

\* add_point matched two existing points and connected the cursor to the
\* first of them.
C5_Witness ==
  /\ hist.op = "add_point"
  /\ \E i, j \in 0..(Len(hist.pret.points) - 1) :
       /\ i < j
       /\ Near(hist.pret.points[i + 1], hist.ax, hist.ay)
       /\ Near(hist.pret.points[j + 1], hist.ax, hist.ay)
       /\ hist.pret.last_point = j
       /\ lines = Append(hist.pret.lines, <<j, i>>)

\* ------------------------------------------------------------------------
\* Claims about the rider
\* ------------------------------------------------------------------------
\* The last call was an update of a rider that was not crashed.
LiveTick == hist.op = "update" /\ ~hist.pre.crashed

\* C1. Crashed is absorbing: once crashed is true, every later call of
\* update(track, dt), for any track and any dt, leaves crashed true and
\* leaves x, y, vx, vy and on_track exactly as they were.
C1_CrashedAbsorbing ==
  [][ (crashed /\ hist'.op = "update") =>
        /\ crashed'
        /\ x' = x
        /\ y' = y
        /\ vx' = vx
        /\ vy' = vy
        /\ on_track' = on_track ]_vars

\* update with a non-default dt was called on a rider that had crashed on
\* impact in the call before, on a track with a segment.
C1_Witness ==
  /\ hist.op = "update"
  /\ hist.pop = "update"
  /\ hist.dt = 36
  /\ hist.pre.crashed
  /\ hist.pre.on_track
  /\ hist.pre.vx = 0
  /\ hist.pre.vy = 0
  /\ Len(lines) > 0
  /\ crashed

\* Rounding tolerance of a speed: 0.02 plane units.
SpeedTol == Scale \div 50

\* The tick ran the speed clamp of lines 97-101.
Clamped ==
  /\ LiveTick
  /\ hist.info.path # "impact"
  /\ Sqrt(hist.info.cx * hist.info.cx + hist.info.cy * hist.info.cy) > max_speed * Scale

\* C2 as claimed. Speed cap: after every call of update, on every path, the
\* speed sqrt(vx^2 + vy^2) is at most max_speed.
C2_AsClaimed ==
  hist.op = "update" =>
    vx * vx + vy * vy <= (max_speed * Scale) * (max_speed * Scale)

\* C2 as amended. After every call of update, on every path, the speed is at
\* most max_speed up to rounding (max_speed + epsilon); when the speed before
\* the clamp exceeds max_speed the velocity is rescaled to magnitude
\* max_speed up to rounding, each component keeping its sign and the
\* direction kept up to rounding.
C2_SpeedCap ==
  /\ hist.op = "update" =>
       vx * vx + vy * vy <= (max_speed * Scale + SpeedTol) * (max_speed * Scale + SpeedTol)
  /\ Clamped =>
       /\ vx * vx + vy * vy >= (max_speed * Scale - SpeedTol) * (max_speed * Scale - SpeedTol)
       /\ vx * hist.info.cx >= 0
       /\ vy * hist.info.cy >= 0
       /\ Abs(vx * hist.info.cy - vy * hist.info.cx)
            <= SpeedTol * (Abs(hist.info.cx) + Abs(hist.info.cy))

\* The clamp rescaled a velocity with two nonzero components.
C2_Witness ==
  /\ Clamped
  /\ vx # 0
  /\ vy # 0

\* Distance from (rx, ry) to the closest point of line k of the track.
LineDist(rx, ry, k) ==
  Dist(rx, ry, closest_point_on_line(rx, ry, PointAt(points, lines[k][1]), PointAt(points, lines[k][2])))

\* C6. Collision resolver result: check_collision returns a contact iff at
\* least one segment's closest point lies at distance strictly less than
\* 4.0 from the rider; the contact (p1, p2, closest) it returns is a
\* segment of the track with its closest point, and the distance from the
\* rider to closest is the minimum over all segments; otherwise it returns
\* no contact.
C6_Resolver ==
  LiveTick =>
    LET rx  == hist.info.px
        ry  == hist.info.py
        col == hist.info.col
    IN  /\ col.found <=> \E k \in 1..Len(lines) : LineDist(rx, ry, k) < min_dist * Scale
        /\ col.found =>
             /\ \E k \in 1..Len(lines) :
                  /\ col.p1 = points[lines[k][1] + 1]
                  /\ col.p2 = points[lines[k][2] + 1]
                  /\ col.closest = closest_point_on_line(rx, ry, col.p1, col.p2)
             /\ \A k \in 1..Len(lines) : Dist(rx, ry, col.closest) <= LineDist(rx, ry, k)
        /\ ~col.found => col = NoContact

\* The resolver chose between two segments both within 4.0 of the rider,
\* the first one being the closer.
C6_Witness ==
  /\ LiveTick
  /\ Len(lines) = 2
  /\ hist.info.col.found
  /\ LineDist(hist.info.px, hist.info.py, 1) < LineDist(hist.info.px, hist.info.py, 2)
  /\ LineDist(hist.info.px, hist.info.py, 2) < min_dist * Scale

\* The normal velocity vx*nx + vy*ny, n = (-ty, tx), of the tick's velocity
\* after gravity and drag against the contact segment.
ContactNormalVelocity ==
  LET p1 == hist.info.col.p1
      p2 == hist.info.col.p2
      len == Sqrt((p2[1] - p1[1]) * (p2[1] - p1[1]) + (p2[2] - p1[2]) * (p2[2] - p1[2]))
      tx == RoundDiv((p2[1] - p1[1]) * Milli, len)
      ty == RoundDiv((p2[2] - p1[2]) * Milli, len)
  IN  RoundDiv(hist.info.ux * (-ty) + hist.info.uy * tx, Milli)

\* The tick's resolver returned a segment of nonzero length.
RealContact == LiveTick /\ hist.info.col.found /\ hist.info.col.p1 # hist.info.col.p2

\* C8. Crash on impact: in a tick where the resolver returns a
\* non-degenerate contact and normal_velocity < -crash_threshold, update
\* ends with crashed = true, vx = vy = 0 and the position at the resolver's
\* closest point (no later step moved or rescaled anything); when
\* normal_velocity >= -crash_threshold the contact does not set crashed:
\* the rider is then crashed only if it is out of bounds.
C8_CrashOnImpact ==
  RealContact =>
    IF ContactNormalVelocity < -(crash_threshold * Scale)
    THEN /\ crashed
         /\ vx = 0
         /\ vy = 0
         /\ << x, y >> = hist.info.col.closest
         /\ on_track
    ELSE crashed =>
           \/ y > 100 * Scale
           \/ y < -10 * Scale
           \/ x < -10 * Scale
           \/ x > 200 * Scale

\* A rider hit a segment with normal velocity below -crash_threshold and
\* crashed inside the bounds.
C8_Witness ==
  /\ RealContact
  /\ ContactNormalVelocity < -(crash_threshold * Scale)
  /\ crashed
  /\ y = 10 * Scale

\* C9. Out-of-bounds termination: on any tick of a non-crashed rider whose
\* final position has y > 100 or y < -10 or x < -10 or x > 200, crashed is
\* true after the tick, with or without a contact; equivalently a rider not
\* crashed after update is inside the box.  The rule does not zero the
\* velocity: it stays what the clamp left.
C9_OutOfBounds ==
  LiveTick =>
    /\ (y > 100 * Scale \/ y < -10 * Scale \/ x < -10 * Scale \/ x > 200 * Scale) => crashed
    /\ ~crashed => (-10 * Scale <= x /\ x <= 200 * Scale /\ -10 * Scale <= y /\ y <= 100 * Scale)
    /\ (crashed /\ hist.info.path # "impact") =>
         << vx, vy >> = LimitSpeed(hist.info.cx, hist.info.cy)

\* A rider left the box below y = 100 in free fall and is crashed with its
\* velocity kept.
C9_Witness ==
  /\ LiveTick
  /\ hist.info.path = "free"
  /\ y > 100 * Scale
  /\ hist.pre.y <= 100 * Scale
  /\ crashed
  /\ vy > 0

\* The free-fall scenario: the rider was placed at (50, -5) with velocity
\* (0, 0), every update used dt = 1, and the track is a horizontal segment
\* at y = 10 passing under x = 50.
FreeFallScenario ==
  /\ run.start = << 50, -5, 0, 0 >>
  /\ run.unit_dt
  /\ Len(lines) = 1
  /\ LET p1 == points[lines[1][1] + 1]
         p2 == points[lines[1][2] + 1]
     IN  /\ p1[2] = 10 * Scale
         /\ p2[2] = 10 * Scale
         /\ (p1[1] <= 50 * Scale /\ 50 * Scale <= p2[1]) \/ (p2[1] <= 50 * Scale /\ 50 * Scale <= p1[1])

\* The tick of first contact: a contact, no contact in the tick before.
FirstContact == LiveTick /\ hist.info.col.found /\ ~hist.pre.on_track

\* C10 as claimed. Free-fall crash scenario: the rider reaches on impact a
\* normal velocity exceeding crash_threshold, so crashed is true after the
\* tick of first contact and vx = vy = 0.
C10_AsClaimed ==
  (FreeFallScenario /\ FirstContact) =>
    /\ Abs(ContactNormalVelocity) > crash_threshold * Scale
    /\ crashed
    /\ vx = 0
    /\ vy = 0

\* C10 as amended. In the free-fall scenario the rider reaches the segment
\* with a normal velocity of magnitude below crash_threshold, so the tick
\* of first contact does not crash it: after that tick crashed is false,
\* on_track is true, the rider is on the segment at (50, 10), and
\* vx = vy = 0.
C10_FreeFallLands ==
  (FreeFallScenario /\ FirstContact) =>
    /\ Abs(ContactNormalVelocity) < crash_threshold * Scale
    /\ ~crashed
    /\ on_track
    /\ x = 50 * Scale
    /\ y = 10 * Scale
    /\ vx = 0
    /\ vy = 0

\* The scenario's rider has reached the segment, on its eighth tick.
C10_Witness ==
  /\ FreeFallScenario
  /\ FirstContact
  /\ ticks = 8

\* ------------------------------------------------------------------------
\* Direct calls of Rider.closest_point_on_line
\* ------------------------------------------------------------------------
\* Rider positions (in 1/Scale plane units) and segment endpoints (whole
\* plane units) the calls are made with.
ProbePositions ==
  { <<500, 300>>, <<-500, 0>>, <<1500, -200>>, <<250, 250>>, <<0, 0>>,
    <<733, -419>>, <<1000, 0>>, <<381, 1207>> }
ProbePoints == { <<0, 0>>, <<10, 0>>, <<0, 10>>, <<7, 3>>, <<-4, 9>> }

InitProbe ==
  /\ points = EmptyTrack.points
  /\ lines = EmptyTrack.lines
  /\ last_point = EmptyTrack.last_point
  /\ \E q \in ProbePositions :
       /\ x = q[1]
       /\ y = q[2]
       /\ run = [ start |-> << q[1], q[2], 1, 0 >>, unit_dt |-> TRUE ]
  /\ vx = 1 * Scale
  /\ vy = 0
  /\ crashed = FALSE
  /\ on_track = FALSE
  /\ ticks = 0
  /\ hist = [ op |-> "init", ax |-> 0, ay |-> 0, dt |-> 0,
              pre |-> NewRider(0, 0, 0, 0), pret |-> EmptyTrack, info |-> NoInfo,
              pop |-> "init", pax |-> 0, pay |-> 0 ]
  /\ NoGame

\* rider.closest_point_on_line(p1, p2); the result is kept in
\* hist.info.col.closest, with the arguments and the distance to it.
Closest(p1, p2) ==
  /\ hist' = Call("closest_point_on_line", 0, 0, 0,
                  [ NoInfo EXCEPT !.col =
                      [ found |-> FALSE, line |-> 0, p1 |-> p1, p2 |-> p2,
                        closest |-> closest_point_on_line(x, y, p1, p2),
                        dist |-> Dist(x, y, closest_point_on_line(x, y, p1, p2)) ] ])
  /\ UNCHANGED << points, lines, last_point, x, y, vx, vy, crashed, on_track, ticks, run >>
  /\ UNCHANGED game

NextProbe ==
  \E a \in ProbePoints, b \in ProbePoints :
    Closest(<< a[1] * Scale, a[2] * Scale >>, << b[1] * Scale, b[2] * Scale >>)

SpecProbe == InitProbe /\ [][NextProbe]_vars

Min(a, b) == IF a < b THEN a ELSE b
Max(a, b) == IF a < b THEN b ELSE a

\* C7. Closest point on a segment: closest_point_on_line returns
\* p1 + t * (p2 - p1), t being the projection parameter of the rider onto
\* the line through p1 and p2 clamped to [0, 1]: p1 when the projection
\* falls before p1, p2 when it falls beyond p2, and otherwise the foot of
\* the perpendicular from the rider (up to rounding), so that the result
\* lies on the finite segment; for p1 = p2 it returns p1.  For the segment
\* (0,0)-(10,0), rider (5,3) gives (5,0) at distance 3 and rider (-5,0)
\* gives (0,0).
C7_ClosestPoint ==
  hist.op = "closest_point_on_line" =>
    LET p1  == hist.info.col.p1
        p2  == hist.info.col.p2
        c   == hist.info.col.closest
        dx  == p2[1] - p1[1]
        dy  == p2[2] - p1[2]
        num == (x - p1[1]) * dx + (y - p1[2]) * dy
        den == dx * dx + dy * dy
    IN  /\ p1 = p2 => c = p1
        /\ (p1 # p2 /\ num <= 0) => c = p1
        /\ (p1 # p2 /\ num >= den) => c = p2
        /\ (p1 # p2 /\ 0 < num /\ num < den) =>
             /\ Min(p1[1], p2[1]) <= c[1] /\ c[1] <= Max(p1[1], p2[1])
             /\ Min(p1[2], p2[2]) <= c[2] /\ c[2] <= Max(p1[2], p2[2])
             /\ 2 * Abs((c[1] - p1[1]) * dy - (c[2] - p1[2]) * dx) <= Abs(dx) + Abs(dy)
             /\ 2 * Abs((x - c[1]) * dx + (y - c[2]) * dy) <= Abs(dx) + Abs(dy)
        /\ (p1 = <<0, 0>> /\ p2 = <<10 * Scale, 0>> /\ x = 5 * Scale /\ y = 3 * Scale) =>
             (c = <<5 * Scale, 0>> /\ hist.info.col.dist = 3 * Scale)
        /\ (p1 = <<0, 0>> /\ p2 = <<10 * Scale, 0>> /\ x = -5 * Scale /\ y = 0) =>
             c = <<0, 0>>

\* The call of the claim's second example was made: the projection of
\* (-5, 0) falls before p1 and is clamped to it.
C7_Witness ==
  /\ hist.op = "closest_point_on_line"
  /\ hist.info.col.p1 = <<0, 0>>
  /\ hist.info.col.p2 = <<10 * Scale, 0>>
  /\ x = -5 * Scale
  /\ y = 0
  /\ hist.info.col.closest = <<0, 0>>

\* ------------------------------------------------------------------------
\* Scenarios and frame conditions
\* ------------------------------------------------------------------------
\* The flat-landing scenario: track points [[0,10],[100,10]] with segment
\* [0,1], the rider constructed at (0, 0) with the default velocity (1, 0),
\* every update passed dt = 1.
FlatScenario ==
  /\ run.start = << 0, 0, 1, 0 >>
  /\ run.unit_dt
  /\ points = << << 0, 10 * Scale >>, << 100 * Scale, 10 * Scale >> >>
  /\ lines = << << 0, 1 >> >>

\* C11. Flat-landing scenario: the rider eventually has on_track = true
\* (within MaxTicks ticks); from the first contact on every tick is a
\* contact and ends with y = 10; crashed is false after every tick.
C11_FlatLanding ==
  FlatScenario =>
    /\ ~crashed
    /\ ticks = MaxTicks => on_track
    /\ on_track => y = 10 * Scale
    /\ (hist.op = "update" /\ hist.pre.on_track) => on_track

\* The scenario's rider has stayed on the segment for a second tick and
\* moved along it.
C11_Witness ==
  /\ FlatScenario
  /\ hist.op = "update"
  /\ hist.pre.on_track
  /\ on_track
  /\ x > hist.pre.x
  /\ y = 10 * Scale

\* C15. update(track, dt) never mutates the track: points, lines and
\* last_point are the same before and after every update call, on every
\* path (crashed no-op, no contact, contact, crash).
C15_TrackUntouched ==
  hist.op = "update" =>
    /\ points = hist.pret.points
    /\ lines = hist.pret.lines
    /\ last_point = hist.pret.last_point

\* An update call with a contact on a track of two segments.
C15_Witness ==
  /\ hist.op = "update"
  /\ hist.info.path = "slide"
  /\ Len(lines) = 2
  /\ lines = hist.pret.lines

\* C16. add_point always succeeds and sets the cursor: after every
\* add_point(x, y) call, last_point is a valid index of points, the index
\* of the newly created point when one was created and the index of the
\* matched existing point otherwise.
C16_CursorSet ==
  hist.op = "add_point" =>
    /\ last_point \in 0..(Len(points) - 1)
    /\ Len(points) = Len(hist.pret.points) + 1 =>
         /\ last_point = Len(points) - 1
         /\ points[last_point + 1] = << hist.ax, hist.ay >>
         /\ ~SomeMatch(hist.pret.points, hist.ax, hist.ay)
    /\ Len(points) # Len(hist.pret.points) + 1 =>
         /\ points = hist.pret.points
         /\ FirstMatch(hist.pret.points, hist.ax, hist.ay, last_point)

\* A call matched an existing point other than the cursor and moved the
\* cursor to it.
C16_Witness ==
  /\ hist.op = "add_point"
  /\ points = hist.pret.points
  /\ hist.pret.last_point # None
  /\ last_point # hist.pret.last_point

\* C17. clear() resets the track to the state of a freshly created Track:
\* points = [], lines = [], last_point None; hence get_start_position
\* returns None after clear, and the first add_point after clear creates
\* point index 0 and no segment.
C17_ClearResets ==
  /\ hist.op = "clear" =>
       /\ points = << >>
       /\ lines = << >>
       /\ last_point = None
       /\ TrackNow = EmptyTrack
       /\ get_start_position(TrackNow) = << >>
  /\ (hist.op = "add_point" /\ hist.pop = "clear") =>
       /\ points = << << hist.ax, hist.ay >> >>
       /\ lines = << >>
       /\ last_point = 0
       /\ get_start_position(TrackNow) = << << hist.ax, hist.ay >> >>

\* clear() was called on a track with points, segments and a cursor.
C17_Witness ==
  /\ hist.op = "clear"
  /\ Len(hist.pret.points) >= 2
  /\ Len(hist.pret.lines) >= 1
  /\ hist.pret.last_point # None
  /\ get_start_position(hist.pret) # << >>

IsPrefix(s, t) == Len(s) <= Len(t) /\ \A i \in 1..Len(s) : s[i] = t[i]

\* C18. Append-only track: every add_point call leaves all existing points
\* and segments unchanged in value and index (the old lists are prefixes of
\* the new ones) and adds at most one point and at most one segment; only
\* clear removes anything.
C18_AppendOnly ==
  /\ hist.op = "add_point" =>
       /\ IsPrefix(hist.pret.points, points)
       /\ IsPrefix(hist.pret.lines, lines)
       /\ Len(points) <= Len(hist.pret.points) + 1
       /\ Len(lines) <= Len(hist.pret.lines) + 1
  /\ hist.op # "clear" =>
       /\ IsPrefix(hist.pret.points, points)
       /\ IsPrefix(hist.pret.lines, lines)

\* An add_point call on a track with points that matched one of them at
\* other coordinates and appended a segment.
C18_Witness ==
  /\ hist.op = "add_point"
  /\ points = hist.pret.points
  /\ Len(lines) = Len(hist.pret.lines) + 1
  /\ points[last_point + 1] # << hist.ax, hist.ay >>

\* The first line of the track, in list order, whose closest point is at the
\* least distance from (rx, ry).
FirstNearestLine(rx, ry) ==
  CHOOSE k \in 1..Len(lines) :
    /\ \A j \in 1..Len(lines) : LineDist(rx, ry, k) <= LineDist(rx, ry, j)
    /\ \A j \in 1..(k - 1) : LineDist(rx, ry, j) > LineDist(rx, ry, k)

\* Two different entries of lines are at the same distance, the least one,
\* from (rx, ry), and it is below min_dist.
TiedContact(rx, ry) ==
  \E j, k \in 1..Len(lines) :
    /\ j < k
    /\ lines[j] # lines[k]
    /\ LineDist(rx, ry, j) = LineDist(rx, ry, k)
    /\ LineDist(rx, ry, j) < min_dist * Scale
    /\ \A i \in 1..Len(lines) : LineDist(rx, ry, j) <= LineDist(rx, ry, i)

\* C19. Resolver tie-break: when two or more segments have closest points
\* at exactly the same minimum distance (< 4.0) from the rider,
\* check_collision returns the one that comes first in the track's lines
\* list.
C19_FirstWins ==
  (LiveTick /\ hist.info.col.found) =>
    LET k == FirstNearestLine(hist.info.px, hist.info.py)
    IN  /\ hist.info.col.p1 = points[lines[k][1] + 1]
        /\ hist.info.col.p2 = points[lines[k][2] + 1]

\* The resolver was called with two segments tied at the least distance.
C19_Witness ==
  /\ LiveTick
  /\ hist.info.col.found
  /\ TiedContact(hist.info.px, hist.info.py)

\* ------------------------------------------------------------------------
\* Tracks whose points and lines are assigned, not built by add_point
\* ------------------------------------------------------------------------
\* default_maps of Game.load_default_map (whole plane units).
default_maps ==
  [ beginner_hill |->
      [ points |-> << <<10, 20>>, <<30, 20>>, <<50, 25>>, <<70, 25>>, <<90, 30>> >>,
        lines  |-> << <<0, 1>>, <<1, 2>>, <<2, 3>>, <<3, 4>> >> ],
    death_drop |->
      [ points |-> << <<10, 10>>, <<30, 10>>, <<32, 30>>, <<50, 30>>, <<70, 35>> >>,
        lines  |-> << <<0, 1>>, <<1, 2>>, <<2, 3>>, <<3, 4>> >> ],
    loop_de_loop |->
      [ points |-> << <<10, 10>>, <<20, 10>>, <<25, 15>>, <<30, 20>>, <<35, 25>>,
                      <<40, 28>>, <<45, 28>>, <<50, 25>>, <<55, 20>>, <<60, 15>>,
                      <<65, 10>>, <<80, 10>> >>,
        lines  |-> [ i \in 1..11 |-> << i - 1, i >> ] ] ]

\* Track data (whole plane units) assigned to a track besides: a segment
\* drawn right to left, a segment with equal endpoints next to a real one,
\* and one of the default maps.
AssignedData ==
  { [ points |-> << <<100, 10>>, <<0, 10>> >>, lines |-> << <<0, 1>> >> ],
    [ points |-> << <<50, 10>>, <<50, 10>>, <<50, 40>>, <<90, 40>> >>,
      lines  |-> << <<0, 1>>, <<2, 3>> >> ],
    default_maps.death_drop }

\* track = Track(); track.points = data['points']; track.lines =
\* data['lines'] (main.py, load_track and load_default_map): the track.
assigned(d) ==
  [ points     |-> [ i \in 1..Len(d.points) |-> << d.points[i][1] * Scale, d.points[i][2] * Scale >> ],
    lines      |-> d.lines,
    last_point |-> None ]

InitAssigned ==
  /\ \E d \in AssignedData :
       /\ points = assigned(d).points
       /\ lines = assigned(d).lines
       /\ last_point = assigned(d).last_point
  /\ \E s \in Starts :
       LET r == NewRider(s[1], s[2], s[3], s[4])
       IN  /\ x = r.x
           /\ y = r.y
           /\ vx = r.vx
           /\ vy = r.vy
           /\ crashed = r.crashed
           /\ on_track = r.on_track
           /\ run = [ start |-> s, unit_dt |-> TRUE ]
  /\ ticks = 0
  /\ hist = [ op |-> "init", ax |-> 0, ay |-> 0, dt |-> 0,
              pre |-> NewRider(0, 0, 0, 0), pret |-> EmptyTrack, info |-> NoInfo,
              pop |-> "init", pax |-> 0, pay |-> 0 ]
  /\ NoGame

NextAssigned ==
  \/ \E s \in Starts : Place(s)
  \/ \E dt \in DtSet : Update(dt)

SpecAssigned == InitAssigned /\ [][NextAssigned]_vars

\* C20. Contact flag: after every update call on a rider that was not
\* crashed at the start of the tick, on_track is true iff the resolver
\* returned a contact for the position integrated in this tick, the tick of
\* a crash on impact and a contact with a zero-length segment included; a
\* tick with no contact ends with on_track false even if it was true
\* before.
C20_ContactFlag ==
  LiveTick =>
    /\ on_track <=> \E k \in 1..Len(lines) :
                      LineDist(hist.info.px, hist.info.py, k) < min_dist * Scale
    /\ on_track <=> hist.info.col.found
    /\ hist.info.path = "impact" => on_track
    /\ hist.info.path = "degenerate" => on_track
    /\ hist.info.path = "free" => ~on_track

\* A rider in contact with a zero-length segment only, in the tick before,
\* has left it: on_track was true and is false.
C20_Witness ==
  /\ LiveTick
  /\ hist.pre.on_track
  /\ ~on_track
  /\ ~crashed
  /\ \A k \in 1..Len(lines) :
       LineDist(hist.pre.x, hist.pre.y, k) < min_dist * Scale
         => PointAt(points, lines[k][1]) = PointAt(points, lines[k][2])

\* ------------------------------------------------------------------------
\* Saving and loading tracks (main.py, Game.save_track and Game.load_track)
\* ------------------------------------------------------------------------
\* Most files maps_dir holds.
MaxFiles == 1

\* A JSON text is a sequence of tokens: punctuation, the keys "points" and
\* "lines", and numbers.  A number is written as sign, integer digits and
\* fraction digits (of 1/Scale); separators and indentation are left out.
Tok(k) == [ k |-> k, neg |-> FALSE, whole |-> 0, frac |-> 0 ]

\* The text of a number n (in 1/Scale), and the number of a text.
NumText(n) == [ k |-> "num", neg |-> n < 0, whole |-> Abs(n) \div Scale, frac |-> Abs(n) % Scale ]
NumValue(t) == (IF t.neg THEN -1 ELSE 1) * (t.whole * Scale + t.frac)

\* The text of the rows (lists of numbers) of a list, from row i on.
RECURSIVE RowsText(_, _)
RowsText(rows, i) ==
  IF i > Len(rows) THEN << >>
  ELSE << Tok("[") >> \o [ j \in 1..Len(rows[i]) |-> NumText(rows[i][j]) ] \o << Tok("]") >>
       \o RowsText(rows, i + 1)

\* A list of index pairs as rows of numbers in 1/Scale, and back.
AsNumbers(lns) == [ i \in 1..Len(lns) |-> [ j \in 1..Len(lns[i]) |-> lns[i][j] * Scale ] ]
AsIndices(rows) == [ i \in 1..Len(rows) |-> [ j \in 1..Len(rows[i]) |-> rows[i][j] \div Scale ] ]

\* Mutant of json_dump: the lines are written in reverse order.
json_dump_Reversed(pts, lns) ==
  << Tok("{"), Tok("points"), Tok("[") >> \o RowsText(pts, 1)
    \o << Tok("]"), Tok("lines"), Tok("[") >>
    \o RowsText(AsNumbers([ i \in 1..Len(lns) |-> lns[Len(lns) + 1 - i] ]), 1)
    \o << Tok("]"), Tok("}") >>

\* json.dump({'points': points, 'lines': lines}, f, indent=2): the text.
json_dump(pts, lns) ==
  << Tok("{"), Tok("points"), Tok("[") >> \o RowsText(pts, 1)
    \o << Tok("]"), Tok("lines"), Tok("[") >> \o RowsText(AsNumbers(lns), 1)
    \o << Tok("]"), Tok("}") >>

\* json.load(f).  A parse result is [ok, next, val]: whether the text
\* parsed, the position after what was parsed, and the value.
ParseFail == [ ok |-> FALSE, next |-> 0, val |-> << >> ]

\* The numbers of a row from position i on, up to its "]".
RECURSIVE ParseRow(_, _, _)
ParseRow(txt, i, row) ==
  IF i > Len(txt) THEN ParseFail
  ELSE IF txt[i].k = "num" THEN ParseRow(txt, i + 1, Append(row, NumValue(txt[i])))
  ELSE IF txt[i].k = "]" THEN [ ok |-> TRUE, next |-> i + 1, val |-> row ]
  ELSE ParseFail

\* The rows of a list from position i on, up to its "]".
RECURSIVE ParseRows(_, _, _)
ParseRows(txt, i, rows) ==
  IF i > Len(txt) THEN ParseFail
  ELSE IF txt[i].k = "["
       THEN LET r == ParseRow(txt, i + 1, << >>)
            IN  IF r.ok THEN ParseRows(txt, r.next, Append(rows, r.val)) ELSE ParseFail
  ELSE IF txt[i].k = "]" THEN [ ok |-> TRUE, next |-> i + 1, val |-> rows ]
  ELSE ParseFail

NoData == [ ok |-> TRUE, has_points |-> FALSE, points |-> << >>, has_lines |-> FALSE, lines |-> << >> ]
JSONDecodeError == [ NoData EXCEPT !.ok = FALSE ]

WithMember(data, key, v) ==
  IF key = "points" THEN [ data EXCEPT !.has_points = TRUE, !.points = v.val ]
  ELSE [ data EXCEPT !.has_lines = TRUE, !.lines = v.val ]

\* The members of the object from position i on, up to its "}" at the end
\* of the text.
RECURSIVE ParseMembers(_, _, _)
ParseMembers(txt, i, data) ==
  IF i > Len(txt) THEN JSONDecodeError
  ELSE IF txt[i].k \in { "points", "lines" } /\ i < Len(txt) /\ txt[i + 1].k = "["
       THEN LET v == ParseRows(txt, i + 2, << >>)
            IN  IF v.ok THEN ParseMembers(txt, v.next, WithMember(data, txt[i].k, v))
                ELSE JSONDecodeError
  ELSE IF txt[i].k = "}" /\ i = Len(txt) THEN data
  ELSE JSONDecodeError

json_load(txt) ==
  IF Len(txt) >= 1 /\ txt[1].k = "{" THEN ParseMembers(txt, 2, NoData) ELSE JSONDecodeError


\* Files put into maps_dir from outside (whole plane units): a sound track,
\* a track whose line refers to point 5 of 2, one whose line refers to point
\* -1 (the last point, for Python), an object without members, and a text
\* cut short.
OutsideFiles ==
  { json_dump(assigned([ points |-> << <<0, 10>>, <<100, 10>> >>, lines |-> << >> ]).points, << <<0, 1>> >>),
    json_dump(assigned([ points |-> << <<0, 10>>, <<100, 10>> >>, lines |-> << >> ]).points, << <<0, 5>> >>),
    json_dump(assigned([ points |-> << <<0, 10>>, <<100, 10>> >>, lines |-> << >> ]).points, << <<0, -1>> >>),
    << Tok("{"), Tok("}") >>,
    << Tok("{"), Tok("points"), Tok("[") >> }

\* A file of maps_dir: its text, the N of "track N.json" (0: another name),
\* and the points and lines save_track wrote it from (empty for a file from
\* outside).
File(text, number, pts, lns) ==
  [ text |-> text, number |-> number, points |-> pts, lines |-> lns ]

\* next_num of save_track: the highest N of the "track N.json" files, plus 1.
RECURSIVE HighestNumber(_, _)
HighestNumber(fs, i) ==
  IF i > Len(fs) THEN 0
  ELSE LET rest == HighestNumber(fs, i + 1)
       IN  IF fs[i].number > rest THEN fs[i].number ELSE rest

next_num(fs) == HighestNumber(fs, 1) + 1

\* Rider(px, py) for a position in 1/Scale: velocity (1.0, 0).
RiderAt(px, py) ==
  [ x |-> px, y |-> py, vx |-> 1 * Scale, vy |-> 0, crashed |-> FALSE, on_track |-> FALSE ]

\* Mutant of loaded: the track keeps the lines it had.
loaded_KeepsLines(data, t) ==
  [ points |-> data.points, lines |-> t.lines, last_point |-> None ]

\* Lines 296-298 of load_track: the track built from the parsed data (t is
\* the track it replaces); data.get gives [] for a missing member.
loaded(data, t) ==
  [ points     |-> IF data.has_points THEN data.points ELSE << >>,
    lines      |-> IF data.has_lines THEN AsIndices(data.lines) ELSE << >>,
    last_point |-> None ]

\* Game.save_track(): a new file "track N.json" with the dump of the
\* track's points and lines, and the status message.  (The except branch,
\* taken when the file system fails, sets the message only.)
SaveTrack ==
  /\ raised = "none"
  /\ Len(files) < MaxFiles
  /\ files' = Append(files, File(json_dump(points, lines), next_num(files), points, lines))
  /\ status_message' = "Saved"
  /\ hist' = Call("save_track", next_num(files), 0, 0, NoInfo)
  /\ UNCHANGED << points, lines, last_point, x, y, vx, vy, crashed, on_track, ticks, run >>
  /\ UNCHANGED << mode, paused, has_rider, raised >>
  /\ UNCHANGED loop

\* Lines 300-305 of load_track, for the new track t.
Loaded(i, t) ==
  /\ SetTrack(t)
  /\ IF get_start_position(t) # << >>
     THEN /\ SetRider(RiderAt(t.points[1][1], t.points[1][2]))
          /\ has_rider' = TRUE
          /\ ticks' = 0
          /\ run' = [ start |-> << t.points[1][1] \div Scale, t.points[1][2] \div Scale, 1, 0 >>,
                      unit_dt |-> TRUE ]
     ELSE UNCHANGED << x, y, vx, vy, crashed, on_track, has_rider, ticks, run >>
  /\ mode' = "playing"
  /\ paused' = FALSE
  /\ UNCHANGED raised
  /\ UNCHANGED loop

\* Game.load_track(filepath), filepath being file i of maps_dir.  json.load
\* raises JSONDecodeError on a text that is no JSON, before anything is
\* assigned.
LoadTrack(i) ==
  /\ raised = "none"
  /\ i \in 1..Len(files)
  /\ hist' = Call("load_track", i, 0, 0, NoInfo)
  /\ IF json_load(files[i].text).ok
     THEN Loaded(i, loaded(json_load(files[i].text), TrackNow))
     ELSE /\ raised' = "JSONDecodeError"
          /\ UNCHANGED << points, lines, last_point, x, y, vx, vy, crashed, on_track,
                          ticks, run, mode, paused, has_rider >>
          /\ UNCHANGED loop
  /\ UNCHANGED << files, status_message >>

\* Game.__init__ with maps_dir empty or holding one file from outside.
InitFiles ==
  /\ points = EmptyTrack.points
  /\ lines = EmptyTrack.lines
  /\ last_point = EmptyTrack.last_point
  /\ x = 0
  /\ y = 0
  /\ vx = 0
  /\ vy = 0
  /\ crashed = FALSE
  /\ on_track = FALSE
  /\ has_rider = FALSE
  /\ run = [ start |-> << 0, 0, 0, 0 >>, unit_dt |-> TRUE ]
  /\ ticks = 0
  /\ hist = [ op |-> "init", ax |-> 0, ay |-> 0, dt |-> 0,
              pre |-> NewRider(0, 0, 0, 0), pret |-> EmptyTrack, info |-> NoInfo,
              pop |-> "init", pax |-> 0, pay |-> 0 ]
  /\ mode = "menu"
  /\ paused = FALSE
  /\ status_message = ""
  /\ raised = "none"
  /\ NoLoop
  /\ \/ files = << >>
     \/ \E text \in OutsideFiles : files = << File(text, 0, << >>, << >>) >>

\* Coordinates (whole plane units) points are added at between saving and
\* loading.
SavedPoints == { <<0, 10>>, <<100, 10>> }

NextFiles ==
  \/ \E p \in SavedPoints : AddPoint(p)
  \/ SaveTrack
  \/ \E i \in 1..MaxFiles : LoadTrack(i)
  \/ Update(1)

SpecFiles == InitFiles /\ [][NextFiles]_vars


\* C13. Persistence round-trip: saving a track (save_track writes its
\* points and lines) and loading that file back (load_track) yields a track
\* whose points and lines equal the saved ones element by element and in
\* the same order, with nothing lost or added.
C13_RoundTrip ==
  (hist.op = "load_track" /\ files[hist.ax].number > 0) =>
    /\ raised = "none"
    /\ points = files[hist.ax].points
    /\ lines = files[hist.ax].lines

\* A track with a segment was saved, a second segment added, and the file
\* loaded back.
C13_Witness ==
  /\ hist.op = "load_track"
  /\ files[hist.ax].number > 0
  /\ Len(points) = 2
  /\ Len(lines) = 1
  /\ Len(hist.pret.lines) = 2

\* A line of the track refers to a point index outside points.
Malformed(pts, lns) == ~Indexable(pts, lns)

\* C14 as claimed. Malformed track rejection: a track whose lines contain a
\* segment referencing an out-of-range point index is rejected with an
\* error when it is loaded, so the track in use is never malformed and
\* check_collision never indexes points out of range during update.
C14_AsClaimed ==
  /\ (hist.op = "load_track" /\ json_load(files[hist.ax].text).ok
        /\ Malformed(json_load(files[hist.ax].text).points,
                     AsIndices(json_load(files[hist.ax].text).lines)))
       => raised # "none"
  /\ ~Malformed(points, lines)
  /\ raised # "IndexError"


\* ------------------------------------------------------------------------
\* The steps of a tick
\* ------------------------------------------------------------------------
\* vy after gravity was added, in the last update call.
AfterGravity == hist.pre.vy + RoundDiv(gravity * hist.dt * Scale, Milli)

\* C21. Drag gating and ordering: in each tick of a non-crashed rider,
\* gravity is added to vy first, then vx and vy are multiplied by the
\* air-resistance coefficient iff on_track was false at the start of the
\* tick, and only then is the position integrated; a rider grounded in the
\* previous tick gets no drag in this tick even if it leaves the surface
\* during it.
C21_DragGating ==
  LiveTick =>
    /\ ~hist.pre.on_track =>
         /\ hist.info.ux = RoundDiv(hist.pre.vx * air_resistance, Milli)
         /\ hist.info.uy = RoundDiv(AfterGravity * air_resistance, Milli)
    /\ hist.pre.on_track =>
         /\ hist.info.ux = hist.pre.vx
         /\ hist.info.uy = AfterGravity
    /\ hist.info.px = hist.pre.x + hist.info.ux * hist.dt
    /\ hist.info.py = hist.pre.y + hist.info.uy * hist.dt
    /\ (hist.info.path = "free" /\ ~Clamped) =>
         /\ x = hist.info.px
         /\ y = hist.info.py
         /\ vx = hist.info.ux
         /\ vy = hist.info.uy

\* A rider that was on the track left it in this tick, moving: its velocity
\* is the one before the tick plus gravity, without drag.
C21_Witness ==
  /\ LiveTick
  /\ hist.pre.on_track
  /\ ~on_track
  /\ ~Clamped
  /\ hist.pre.vx # 0
  /\ vx = hist.pre.vx
  /\ vy = AfterGravity


\* The unit tangent (in 1/Milli) of the contact segment of the last tick.
ContactTangent ==
  LET p1  == hist.info.col.p1
      p2  == hist.info.col.p2
      len == Sqrt((p2[1] - p1[1]) * (p2[1] - p1[1]) + (p2[2] - p1[2]) * (p2[2] - p1[2]))
  IN  << RoundDiv((p2[1] - p1[1]) * Milli, len), RoundDiv((p2[2] - p1[2]) * Milli, len) >>

\* friction * (v.t) + gravity * ty * dt for the velocity v after gravity
\* and drag and the contact tangent t.
AlongTangent ==
  LET t == ContactTangent
  IN  RoundDiv(friction * RoundDiv(hist.info.ux * t[1] + hist.info.uy * t[2], Milli), Milli)
        + RoundDiv(RoundDiv(gravity * t[2], Milli) * Scale * hist.dt, Milli)

\* Rounding tolerance of the velocity after a contact: the slope term is
\* rounded before it is multiplied by dt.
SlideTol == 3 + hist.dt

\* A tick with a contact on a segment of nonzero length that did not crash
\* on impact.
SlidingTick == RealContact /\ hist.info.path = "slide"

C23_PositionSnap ==
  RealContact =>
    LET p1 == hist.info.col.p1
        p2 == hist.info.col.p2
    IN  /\ x = hist.info.col.closest[1]
        /\ y = hist.info.col.closest[2]
        /\ << x, y >> = closest_point_on_line(hist.info.px, hist.info.py, p1, p2)
        /\ Min(p1[1], p2[1]) <= x /\ x <= Max(p1[1], p2[1])
        /\ Min(p1[2], p2[2]) <= y /\ y <= Max(p1[2], p2[2])
        /\ 2 * Abs((x - p1[1]) * (p2[2] - p1[2]) - (y - p1[2]) * (p2[1] - p1[1]))
             <= Abs(p2[1] - p1[1]) + Abs(p2[2] - p1[2])

\* A tick that crashed on impact moved the rider onto the segment.
C23_Witness ==
  /\ RealContact
  /\ hist.info.path = "impact"
  /\ y # hist.info.py
  /\ y = hist.info.col.closest[2]

\* The tick's resolver returned a segment with equal endpoints.
ZeroLengthContact == LiveTick /\ hist.info.col.found /\ hist.info.col.p1 = hist.info.col.p2

\* C24. Zero-length contact: when the segment returned by the resolver has
\* equal endpoints, the tick sets on_track = true but performs no contact
\* physics: the position is not snapped, no crash check is made, and the
\* velocity is that of free motion (gravity, drag if applicable), followed
\* by the speed clamp and the out-of-bounds test.
C24_ZeroLength ==
  ZeroLengthContact =>
    /\ on_track
    /\ x = hist.info.px
    /\ y = hist.info.py
    /\ hist.info.cx = hist.info.ux
    /\ hist.info.cy = hist.info.uy
    /\ ~Clamped => (vx = hist.info.ux /\ vy = hist.info.uy)
    /\ Clamped =>
         /\ vx * vx + vy * vy <= (max_speed * Scale + SpeedTol) * (max_speed * Scale + SpeedTol)
         /\ vx * hist.info.ux >= 0
         /\ vy * hist.info.uy >= 0
    /\ crashed <=> (y > 100 * Scale \/ y < -10 * Scale \/ x < -10 * Scale \/ x > 200 * Scale)

\* A rider met a zero-length segment at more than crash_threshold and short
\* of the point itself: it did not crash and was not moved to the point.
C24_Witness ==
  /\ ZeroLengthContact
  /\ hist.info.ux * hist.info.ux + hist.info.uy * hist.info.uy
       > (crash_threshold * Scale) * (crash_threshold * Scale)
  /\ << x, y >> # hist.info.col.closest
  /\ ~crashed
  /\ on_track


\* Values of the bounce attribute (in 1/Milli) the outcome is compared for.
BounceValues == { 0, 400, 900, 3000 }

\* <<vx, vy>> at the end of the last tick, had the rider's bounce been b.
VelocityWithBounce(b) ==
  LET w == SlideWith(b, hist.info.ux, hist.info.uy, ContactTangent[1], ContactTangent[2],
                     hist.info.nv, hist.dt)
  IN  LimitSpeed(w[1], w[2])

\* The bounce term was computed in the last tick: a contact that did not
\* crash, the rider moving into the surface.
BounceTick == SlidingTick /\ hist.info.nv < 0

\* C26 as claimed. Bounce has no effect on the outcome of a tick: the state
\* after update (x, y, vx, vy, on_track, crashed) is the same for any value
\* of the bounce coefficient.
C26_AsClaimed ==
  BounceTick =>
    \A b \in BounceValues : VelocityWithBounce(b) = << vx, vy >>

\* Rounding tolerance of the velocity between two values of bounce.
BounceTol == 3

\* C26 as amended. For any value of the bounce coefficient the state after
\* update has the same x, y, on_track and crashed, and the same vx and vy up
\* to rounding: the restitution term is along the normal and the projection
\* onto the tangent removes it, but not the rounding it brought.
C26_BounceUpToRounding ==
  BounceTick =>
    /\ \A b \in BounceValues :
         /\ Abs(VelocityWithBounce(b)[1] - vx) <= BounceTol
         /\ Abs(VelocityWithBounce(b)[2] - vy) <= BounceTol
    /\ << x, y >> = hist.info.col.closest
    /\ on_track
    /\ crashed <=> (y > 100 * Scale \/ y < -10 * Scale \/ x < -10 * Scale \/ x > 200 * Scale)

\* A rider moved into a sloped segment at more than one unit per tick, and
\* another bounce would have given a velocity other than the one it has.
C26_Witness ==
  /\ BounceTick
  /\ hist.info.nv < -(1 * Scale)
  /\ ContactTangent[1] # 0
  /\ ContactTangent[2] # 0
  /\ \E b \in BounceValues : VelocityWithBounce(b) # << vx, vy >>


\* ------------------------------------------------------------------------
\* The stored order of a segment's endpoints
\* ------------------------------------------------------------------------
\* Track data (whole plane units) for contacts under both endpoint orders:
\* a flat and a sloped segment inside the bounds of line 104, and a flat
\* segment that crosses the right edge x = 200, each stored both ways.
OrientedData ==
  { [ points |-> << <<0, 10>>, <<100, 10>> >>,   lines |-> << <<0, 1>> >> ],
    [ points |-> << <<100, 10>>, <<0, 10>> >>,   lines |-> << <<0, 1>> >> ],
    [ points |-> << <<40, 10>>, <<60, 20>> >>,   lines |-> << <<0, 1>> >> ],
    [ points |-> << <<60, 20>>, <<40, 10>> >>,   lines |-> << <<0, 1>> >> ],
    [ points |-> << <<190, 50>>, <<210, 50>> >>, lines |-> << <<0, 1>> >> ],
    [ points |-> << <<210, 50>>, <<190, 50>> >>, lines |-> << <<0, 1>> >> ] }

\* Riders <<x, y, vx, vy>> that reach those segments, slowly and fast.
OrientedStarts ==
  { <<50, -5, 0, 11>>, <<50, 0, 2, 3>>, <<50, 5, 1, 0>>, <<205, 35, 0, 11>>, <<195, 40, 2, 1>> }

InitOriented ==
  /\ \E d \in OrientedData :
       /\ points = assigned(d).points
       /\ lines = assigned(d).lines
       /\ last_point = assigned(d).last_point
  /\ \E s \in OrientedStarts :
       LET r == NewRider(s[1], s[2], s[3], s[4])
       IN  /\ x = r.x
           /\ y = r.y
           /\ vx = r.vx
           /\ vy = r.vy
           /\ crashed = r.crashed
           /\ on_track = r.on_track
           /\ run = [ start |-> s, unit_dt |-> TRUE ]
  /\ ticks = 0
  /\ hist = [ op |-> "init", ax |-> 0, ay |-> 0, dt |-> 0,
              pre |-> NewRider(0, 0, 0, 0), pret |-> EmptyTrack, info |-> NoInfo,
              pop |-> "init", pax |-> 0, pay |-> 0 ]
  /\ NoGame

SpecOriented == InitOriented /\ [][NextAssigned]_vars

\* track.lines with the two indices of line k (from 1) exchanged.
SwapLine(lns, k) ==
  [ i \in 1..Len(lns) |-> IF i = k THEN << lns[i][2], lns[i][1] >> ELSE lns[i] ]

\* The last tick again, from the same rider, with the endpoints of the
\* contact segment stored in the other order.
SwappedTick ==
  Tick(hist.pre, hist.pret.points, SwapLine(hist.pret.lines, hist.info.col.line), hist.dt)

\* Under the other order the contact is with the same segment.
SameContact == SwappedTick.col.found /\ SwappedTick.col.line = hist.info.col.line

\* The normal speed of the last contact exceeds crash_threshold.
HardContact == Abs(hist.info.nv) > crash_threshold * Scale

\* C27 as claimed. Segment orientation matters only for the crash check:
\* swapping the stored order of the contact segment's endpoints negates
\* normal_velocity; an impact whose normal speed exceeds crash_threshold
\* crashes the rider for exactly one of the two orders, and for impacts
\* that crash under neither order the position and velocity after the tick
\* are identical under both orders.
C27_AsClaimed ==
  (RealContact /\ SameContact) =>
    /\ SwappedTick.nv = -hist.info.nv
    /\ HardContact => (crashed # SwappedTick.rider.crashed)
    /\ (~crashed /\ ~SwappedTick.rider.crashed) =>
         << x, y, vx, vy >> = << SwappedTick.rider.x, SwappedTick.rider.y,
                                 SwappedTick.rider.vx, SwappedTick.rider.vy >>

\* Rounding tolerance of position and velocity between the two orders.
OrientTol == 3

\* C27 as amended. Swapping the stored order of the contact segment's
\* endpoints negates normal_velocity; an impact whose normal speed exceeds
\* crash_threshold sets crashed at the crash check (line 73) for exactly
\* one of the two orders, and under the other order the rider still ends
\* the tick crashed iff the contact point is out of bounds; when the crash
\* check fires under neither order the position and velocity after the
\* tick agree under both orders up to rounding.
C27_Orientation ==
  (RealContact /\ SameContact) =>
    /\ SwappedTick.nv = -hist.info.nv
    /\ HardContact => ((hist.info.path = "impact") # (SwappedTick.path = "impact"))
    /\ (HardContact /\ hist.info.path = "impact") =>
         (SwappedTick.rider.crashed
            <=> OutOfBounds(SwappedTick.col.closest[1], SwappedTick.col.closest[2]))
    /\ (HardContact /\ hist.info.path # "impact") =>
         (crashed <=> OutOfBounds(hist.info.col.closest[1], hist.info.col.closest[2]))
    /\ (hist.info.path # "impact" /\ SwappedTick.path # "impact") =>
         /\ Abs(x - SwappedTick.rider.x) <= OrientTol
         /\ Abs(y - SwappedTick.rider.y) <= OrientTol
         /\ Abs(vx - SwappedTick.rider.vx) <= OrientTol
         /\ Abs(vy - SwappedTick.rider.vy) <= OrientTol

\* A rider crashed on impact with a segment that crosses the bounds: with
\* the endpoints in the other order the crash check passes and the rider
\* is crashed all the same, by the bounds test.
C27_Witness ==
  /\ RealContact
  /\ SameContact
  /\ HardContact
  /\ hist.info.path = "impact"
  /\ SwappedTick.path = "slide"
  /\ SwappedTick.rider.crashed


\* ------------------------------------------------------------------------
\* The causes of a crash
\* ------------------------------------------------------------------------
\* crashed became true in the last call.
NewlyCrashed == crashed /\ ~hist.pre.crashed

\* C28. Only two causes of crash: if crashed is false before an update
\* call and true after it, then in that tick either a contact with a
\* segment of nonzero length had normal_velocity < -crash_threshold, or the
\* final position was outside the box -10 <= x <= 200, -10 <= y <= 100;
\* no other call sets crashed, and no call resets it to false (Rider(...)
\* makes another rider).
C28_CrashCauses ==
  /\ (hist.op = "update" /\ NewlyCrashed) =>
       \/ /\ hist.info.col.found
          /\ hist.info.col.p1 # hist.info.col.p2
          /\ hist.info.nv < -(crash_threshold * Scale)
       \/ x < -10 * Scale \/ x > 200 * Scale \/ y < -10 * Scale \/ y > 100 * Scale
  /\ (hist.op \notin { "update", "rider", "init" }) => (crashed <=> hist.pre.crashed)
  /\ (hist.op # "rider" /\ hist.op # "init" /\ hist.pre.crashed) => crashed

\* A rider that was on a segment left it and crashed in free flight by
\* leaving the box: crashed although no contact was found in the tick.
C28_Witness ==
  /\ hist.op = "update"
  /\ NewlyCrashed
  /\ ~hist.info.col.found
  /\ hist.pre.on_track
  /\ Len(lines) > 0
  /\ (x < -10 * Scale \/ x > 200 * Scale \/ y < -10 * Scale \/ y > 100 * Scale)


\* ------------------------------------------------------------------------
\* Separation of the points of a drawn track
\* ------------------------------------------------------------------------
\* C29. Point separation: in a Track built only by add_point and clear,
\* any two distinct points p, q satisfy |p.x - q.x| >= 2 or
\* |p.y - q.y| >= 2; so no two points coincide and every segment has
\* nonzero length.
C29_PointSeparation ==
  /\ \A i, j \in 1..Len(points) :
       i # j => \/ Abs(points[i][1] - points[j][1]) >= 2 * Scale
                \/ Abs(points[i][2] - points[j][2]) >= 2 * Scale
  /\ \A i, j \in 1..Len(points) : i # j => points[i] # points[j]
  /\ \A k \in 1..Len(lines) :
       Tangent([ p1 |-> PointAt(points, lines[k][1]),
                 p2 |-> PointAt(points, lines[k][2]) ]).length > 0

\* A track with two points exactly 2 apart on one axis and a segment, whose
\* last add_point call fell within tolerance of a point and created none.
C29_Witness ==
  /\ hist.op = "add_point"
  /\ points = hist.pret.points
  /\ Len(lines) >= 1
  /\ \E i, j \in 1..Len(points) :
       /\ Abs(points[i][1] - points[j][1]) = 2 * Scale
       /\ points[i][2] = points[j][2]
  /\ << hist.ax, hist.ay >> \notin { points[i] : i \in 1..Len(points) }


\* ------------------------------------------------------------------------
\* The game loop (main.py, Game.run, the screens and Game.handle_input)
\* ------------------------------------------------------------------------
\* stdscr.getmaxyx(): a small terminal.
ScreenHeight == 14
ScreenWidth == 44

\* The cells the cursor is moved over: a move key that would take the
\* cursor elsewhere is not pressed.
CursorCells == { <<40, 10>>, <<42, 10>>, <<40, 11>> }

\* Lines drawn in the editor, and updates of one rider, in the game loop.
MaxDrawn == 1
MaxPlayed == 2

\* ord(c) of the keys handle_input compares with.
ord(c) ==
  CASE c = " " -> 32
    [] c = "1" -> 49
    [] c = "2" -> 50
    [] c = "3" -> 51
    [] c = "4" -> 52
    [] c = "5" -> 53
    [] c = "9" -> 57
    [] c = "M" -> 77
    [] c = "Q" -> 81
    [] c = "a" -> 97
    [] c = "d" -> 100
    [] c = "e" -> 101
    [] c = "m" -> 109
    [] c = "p" -> 112
    [] c = "q" -> 113
    [] c = "r" -> 114
    [] c = "s" -> 115
    [] c = "w" -> 119

\* What getch returns: -1 when no key was pressed within the timeout, 19
\* for Ctrl+S, the code of a key otherwise.
Keys ==
  { -1, 19 } \cup
  { ord(c) : c \in { " ", "1", "2", "3", "4", "5", "M", "Q", "a", "d", "e", "m", "p",
                     "q", "r", "s", "w" } }

\* The keys pressed in mode m: those handle_input has a branch for in that
\* mode; any other key does what no key (-1) does.
KeysOf(m) ==
  { -1 } \cup
  CASE m = "menu"      -> { ord(c) : c \in { "1", "2", "3", "4", "5", "q", "Q" } }
    [] m = "load_menu" -> { ord(c) : c \in { "1", "2", "m", "M" } }
    [] m = "editor"    -> { 19 } \cup { ord(c) : c \in { "w", "s", "a", "d", " ", "r", "p", "m" } }
    [] m = "playing"   -> { ord(c) : c \in { " ", "r", "e", "m" } }

\* The fields of the Game and of its track and rider, with the loop's
\* bookkeeping, as one record.
GameNow ==
  [ track |-> TrackNow, rider |-> RiderNow, has_rider |-> has_rider,
    mode |-> mode, paused |-> paused, editor_x |-> editor_x, editor_y |-> editor_y,
    files |-> files, status_message |-> status_message, running |-> running,
    raised |-> raised, ticks |-> ticks, run |-> run, ridden |-> ridden,
    updated |-> FALSE ]

\* Mutant of ShouldUpdate: the pause is not looked at.
ShouldUpdate_IgnoresPause(p, hr, cr) == hr /\ ~cr

\* main.py:164: not self.paused and self.rider and not self.rider.crashed
ShouldUpdate(p, hr, cr) == ~p /\ hr /\ ~cr

\* main.py:165: self.rider.update(self.track), dt left at its default 1.0.
Updated(g) ==
  LET u == update(g.rider, g.track.points, g.track.lines, 1)
  IN  [ g EXCEPT !.rider = u.rider,
                 !.ticks = @ + 1,
                 !.ridden = "same",
                 !.updated = TRUE,
                 !.raised = IF u.path = "IndexError" THEN "IndexError" ELSE @ ]

\* Lines 44-51 of Game.run: the screen function of the mode.  Only
\* playing_screen changes anything but the display.
Screen(g) ==
  IF g.mode = "playing" /\ ShouldUpdate(g.paused, g.has_rider, g.rider.crashed)
  THEN Updated(g)
  ELSE g

\* self.rider = Rider(start[0], start[1])
WithRiderAt(g, start) ==
  [ g EXCEPT !.rider = RiderAt(start[1], start[2]),
             !.has_rider = TRUE,
             !.ticks = 0,
             !.ridden = "none",
             !.run = [ start |-> << start[1] \div Scale, start[2] \div Scale, 1, 0 >>,
                       unit_dt |-> TRUE ] ]

\* start = self.track.get_start_position(); if start: self.rider = Rider(...)
Restarted(g) ==
  IF get_start_position(g.track) # << >>
  THEN WithRiderAt(g, get_start_position(g.track)[1])
  ELSE g

\* Lines 300-305 of load_track and 333-338 of load_default_map, for the new
\* track t.
Playing(g, t) ==
  [ Restarted([ g EXCEPT !.track = t ]) EXCEPT !.mode = "playing", !.paused = FALSE ]

\* Game.load_track(file): json.load raises on a text that is no JSON.
load_track(g, file) ==
  IF json_load(file.text).ok
  THEN Playing(g, loaded(json_load(file.text), g.track))
  ELSE [ g EXCEPT !.raised = "JSONDecodeError" ]

\* Game.load_default_map(map_name)
load_default_map(g, map_name) == Playing(g, assigned(default_maps[map_name]))

\* Game.save_track()
save_track(g) ==
  [ g EXCEPT !.files = Append(@, File(json_dump(g.track.points, g.track.lines),
                                      next_num(g.files), g.track.points, g.track.lines)),
             !.status_message = "Saved" ]

\* Lines 192-206: the keys of the menu.
MenuKey(g, key) ==
  CASE key = ord("1") ->
         [ g EXCEPT !.mode = "editor", !.track = EmptyTrack,
                    !.rider = NewRider(0, 0, 0, 0), !.has_rider = FALSE,
                    !.ticks = 0, !.ridden = "none",
                    !.run = [ start |-> << 0, 0, 0, 0 >>, unit_dt |-> TRUE ],
                    !.editor_x = 40, !.editor_y = 10 ]
    [] key = ord("2") -> [ g EXCEPT !.mode = "load_menu" ]
    [] key = ord("3") -> load_default_map(g, "beginner_hill")
    [] key = ord("4") -> load_default_map(g, "death_drop")
    [] key = ord("5") -> load_default_map(g, "loop_de_loop")
    [] OTHER -> g

\* Lines 208-217: the keys of the load menu; tracks is the files of
\* maps_dir, newest first.
LoadMenuKey(g, key) ==
  CASE key = ord("m") \/ key = ord("M") -> [ g EXCEPT !.mode = "menu" ]
    [] ord("1") <= key /\ key <= ord("9") ->
         LET track_index == key - ord("1")
         IN  IF track_index < Len(g.files)
             THEN load_track(g, g.files[Len(g.files) - track_index])
             ELSE g
    [] OTHER -> g

Min2(a, b) == IF a < b THEN a ELSE b
Max2(a, b) == IF a > b THEN a ELSE b

\* Lines 219-240: the keys of the editor.
EditorKey(g, key) ==
  CASE key = ord("w") -> [ g EXCEPT !.editor_y = Max2(2, @ - 1) ]
    [] key = ord("s") -> [ g EXCEPT !.editor_y = Min2(ScreenHeight - 2, @ + 1) ]
    [] key = ord("a") -> [ g EXCEPT !.editor_x = Max2(0, @ - 2) ]
    [] key = ord("d") -> [ g EXCEPT !.editor_x = Min2(ScreenWidth - 2, @ + 2) ]
    [] key = ord(" ") ->
         [ g EXCEPT !.track = add_point(@, g.editor_x * Scale, g.editor_y * Scale) ]
    [] key = ord("r") -> Restarted(g)
    [] key = ord("p") ->
         IF Len(g.track.lines) > 0 /\ get_start_position(g.track) # << >>
         THEN [ Restarted(g) EXCEPT !.mode = "playing", !.paused = FALSE ]
         ELSE g
    [] key = 19 -> save_track(g)
    [] key = ord("m") -> [ g EXCEPT !.mode = "menu" ]
    [] OTHER -> g

\* Lines 242-252: the keys of playing mode.
PlayingKey(g, key) ==
  CASE key = ord(" ") -> [ g EXCEPT !.paused = ~@ ]
    [] key = ord("r") -> Restarted(g)
    [] key = ord("e") -> [ g EXCEPT !.mode = "editor" ]
    [] key = ord("m") -> [ g EXCEPT !.mode = "menu" ]
    [] OTHER -> g

\* Lines 188-190: q or Q ends the loop from the menu.
QuitKey(g, key) ==
  IF (key = ord("q") \/ key = ord("Q")) /\ g.mode = "menu"
  THEN [ g EXCEPT !.running = FALSE ]
  ELSE g

\* Game.handle_input(key)
handle_input(g, key) ==
  LET q == QuitKey(g, key)
  IN  CASE q.mode = "menu"      -> MenuKey(q, key)
        [] q.mode = "load_menu" -> LoadMenuKey(q, key)
        [] q.mode = "editor"    -> EditorKey(q, key)
        [] q.mode = "playing"   -> PlayingKey(q, key)

\* One pass of the loop of Game.run: the screen, then the key; an exception
\* out of the screen ends the program before the key is read.
Pass(g, key) ==
  LET s == Screen(g)
  IN  IF s.raised # "none" THEN s ELSE handle_input(s, key)

\* The bookkeeping of ridden after a pass from g to h.
Kept(g, h) ==
  IF h.track # g.track /\ h.ridden = "same" THEN [ h EXCEPT !.ridden = "changed" ] ELSE h

\* The model stays within its bounds: the cursor within CursorCells, at
\* most MaxDrawn lines and MaxDrawn + 1 points drawn, MaxFiles files, saved
\* from tracks without lines, and MaxPlayed updates of a rider.
Within(g) ==
  /\ << g.editor_x, g.editor_y >> \in CursorCells
  /\ Len(g.track.lines) <= MaxDrawn \/ g.track.lines = lines
  /\ Len(g.track.points) <= MaxDrawn + 1 \/ g.track.points = points
  /\ Len(g.files) <= MaxFiles
  /\ g.files # files => lines = << >>
  /\ g.ticks <= MaxPlayed

\* The variables take the fields of g.
Becomes(g) ==
  /\ SetTrack(g.track)
  /\ SetRider(g.rider)
  /\ has_rider' = g.has_rider
  /\ mode' = g.mode
  /\ paused' = g.paused
  /\ editor_x' = g.editor_x
  /\ editor_y' = g.editor_y
  /\ files' = g.files
  /\ status_message' = g.status_message
  /\ running' = g.running
  /\ raised' = g.raised
  /\ ticks' = g.ticks
  /\ run' = g.run
  /\ ridden' = g.ridden

\* What a pass of the loop leaves in hist: whether it called update.
Passed(updated) ==
  [ op |-> IF updated THEN "update" ELSE "frame", ax |-> 0, ay |-> 0, dt |-> 1,
    pre |-> NewRider(0, 0, 0, 0), pret |-> EmptyTrack, info |-> NoInfo,
    pop |-> "frame", pax |-> 0, pay |-> 0 ]

\* One pass of the loop in which getch returned key.
Frame(key) ==
  /\ running
  /\ raised = "none"
  /\ key \in KeysOf(mode)
  /\ \E g \in { Kept(GameNow, Pass(GameNow, key)) } :
       /\ Within(g)
       /\ Becomes(g)
       /\ hist' = Passed(g.updated)

\* Game.__init__ with maps_dir empty.
InitGame ==
  /\ points = EmptyTrack.points
  /\ lines = EmptyTrack.lines
  /\ last_point = EmptyTrack.last_point
  /\ x = 0
  /\ y = 0
  /\ vx = 0
  /\ vy = 0
  /\ crashed = FALSE
  /\ on_track = FALSE
  /\ has_rider = FALSE
  /\ run = [ start |-> << 0, 0, 0, 0 >>, unit_dt |-> TRUE ]
  /\ ticks = 0
  /\ hist = [ op |-> "init", ax |-> 0, ay |-> 0, dt |-> 0,
              pre |-> NewRider(0, 0, 0, 0), pret |-> EmptyTrack, info |-> NoInfo,
              pop |-> "init", pax |-> 0, pay |-> 0 ]
  /\ mode = "menu"
  /\ paused = FALSE
  /\ status_message = ""
  /\ raised = "none"
  /\ files = << >>
  /\ NoLoop

NextGame == \E key \in Keys : Frame(key)

SpecGame == InitGame /\ [][NextGame]_vars


\* C25 as claimed. Track changes happen only between simulation runs: in
\* the game driver add_point is invoked only in editor mode and
\* Rider.update only in playing mode, and whenever playing mode is entered
\* after the track was mutated or replaced (editor 'p', load_track,
\* load_default_map) the rider being updated is a Rider newly constructed
\* at that track's start position; no Rider is updated both before and
\* after a change of the track.
C25_AsClaimed ==
  [][ /\ (TrackNow' # TrackNow) => mode # "playing"
      /\ (hist'.op = "update") => mode = "playing"
      /\ (hist'.op = "update") => ridden # "changed" ]_vars

\* The gate of playing_screen is open: this pass calls update.
GateOpen == mode = "playing" /\ ~paused /\ has_rider /\ ~crashed

\* A key of the pass constructed a Rider at the start of the track, or
\* removed the rider (New Track).
RiderReplaced ==
  /\ ticks' = 0
  /\ ridden' = "none"
  /\ IF has_rider'
     THEN /\ get_start_position(TrackNow') # << >>
          /\ RiderNow' = RiderAt(points'[1][1], points'[1][2])
     ELSE mode = "menu" /\ mode' = "editor"

=============================================================================
